---- MODULE Spec2Model ----
(***************************************************************************)
(* Model of the macro playback engine (macro-player.js).                   *)
(*                                                                         *)
(* JavaScript is single threaded: a handler runs from its entry to its     *)
(* next `await` of a real suspension (input simulation, a timer) without   *)
(* interleaving.  Each action below is one such synchronous segment.       *)
(* Speeds are held in hundredths (1.0 is 100), delays in milliseconds.     *)
(***************************************************************************)
EXTENDS Integers, Sequences, FiniteSets, TLC

\* Number of playMacro calls that get past the isPlaying guard.
MaxRuns == 2
\* Largest repeatCount option passed to playMacro.
MaxRepeat == 2

Runs == 1..MaxRuns
NoTimer == 0
NoIndex == -1

---------------------------------------------------------------------------
(* Macros handed to the player.  Steps are stored out of order.            *)

Step(o, t, d, x, y) == [order |-> o, type |-> t, duration |-> d, x |-> x, y |-> y]

\* m1 is [Click(100,100), Delay(500), Text] stored as [Delay, Click, Text].
MacroLib ==
  [ m0 |-> << >>,
    m1 |-> << Step(2, "delay", 500, 0, 0), Step(1, "click", 0, 100, 100),
              Step(3, "text", 0, 0, 0) >>,
    m2 |-> << Step(1, "keyboard", 0, 0, 0) >> ]

MacroIds == DOMAIN MacroLib

\* Values of options.speed (0: option absent), in hundredths.
OptionSpeeds == {0, 200}
\* Arguments of setPlaybackSpeed, in hundredths.
SpeedInputs == {-100, 0, 10, 200, 500}

NoOptions == [speed |-> 0, repeat |-> FALSE, repeatCount |-> 0, suppressErrors |-> FALSE]

\* The options objects passed to playMacro: every combination of repeat and
\* repeatCount, and each of speed and suppressErrors on its own.
Options ==
  { [NoOptions EXCEPT !.repeat = b, !.repeatCount = c] : b \in BOOLEAN, c \in 0..MaxRepeat }
    \cup { [NoOptions EXCEPT !.speed = v] : v \in OptionSpeeds }
    \cup { [NoOptions EXCEPT !.suppressErrors = TRUE] }

---------------------------------------------------------------------------
(* Pure helpers                                                            *)

\* Array.prototype.sort with (a, b) => a.order - b.order: a stable sort.
RECURSIVE InsertByOrder(_, _)
InsertByOrder(s, e) ==
  IF s = << >> THEN << e >>
  ELSE IF e.order < Head(s).order THEN << e >> \o s
  ELSE << Head(s) >> \o InsertByOrder(Tail(s), e)

RECURSIVE SortFrom(_, _)
SortFrom(acc, s) ==
  IF s = << >> THEN acc ELSE SortFrom(InsertByOrder(acc, Head(s)), Tail(s))

\* The steps taken in stored order.
SortByOrder_Stored(steps) == steps

SortByOrder(steps) == SortFrom(<< >>, steps)

\* Math.round(a / b) for a >= 0, b > 0: floor(a/b + 1/2).
RoundDiv(a, b) == (2 * a + b) \div (2 * b)

\* The delay multiplied by the speed instead of divided by it.
AdjustedDelay_Times(duration, speed) == RoundDiv(duration * speed, 100)

\* Math.round(delay / playbackSpeed), the speed being in hundredths.
AdjustedDelay(duration, speed) == RoundDiv(duration * 100, speed)

\* The lower limit alone.
ClampSpeed_NoUpper(s) == IF s < 25 THEN 25 ELSE s

\* Math.min(Math.max(speed, 0.25), 4.0)
ClampSpeed(s) == IF s < 25 THEN 25 ELSE IF s > 400 THEN 400 ELSE s

\* JavaScript `x || d` on a number: 0 is falsy.
OrDefault(x, d) == IF x = 0 THEN d ELSE x

---------------------------------------------------------------------------
VARIABLES
  playbackState,  \* MacroPlayer._playbackState
  run,            \* the frame of each accepted playMacro call
  watch,          \* history of the observed playMacro call
  pausedAt,       \* history: stepIndex of the pending playbackPaused notification
  emitted,        \* the notifications delivered to listeners by the last action
  ret             \* whether the last call returned a success value

\* The recorder (macro-recorder.js) and its collaborators.
VARIABLES
  recordingState, \* MacroRecorder._recordingState
  macros,         \* MacroRecorder._macros
  disk,           \* the content of the macros storage file
  targets,        \* the targets held by the target manager
  dependencies,   \* MacroRecorder._dependencies: the feeds the injected modules offer
  hostHandlers,   \* the handlers registered with the input feeds
  setup,          \* the startRecording call suspended in _setupRecordingEventHandlers
  clock,          \* Date.now()
  session,        \* history of the recording session being observed
  recReturn       \* what the last recorder call returned

\* The target manager (target-manager.js), the coordinate functions
\* (target-types.js) and the input simulators with the host they drive.
VARIABLES
  displays,       \* screen.getAllDisplays(): the current display layout
  targetsFile,    \* the content of the targets storage file
  clicks,         \* the simulateClick calls issued by the last operation
  tmReady,        \* TargetManager._clickSimulator has been set by initialize
  tmReturn,       \* what the last target manager call returned
  host,           \* robotjs: buttons and modifier keys held, calls of the last operation
  simReturn       \* what the last simulator call returned

playerVars == << playbackState, run, watch, pausedAt, emitted, ret >>
registryVars ==
  << displays, targetsFile, clicks, tmReady, tmReturn, host, simReturn >>
recorderVars ==
  << recordingState, macros, disk, targets, dependencies, hostHandlers, setup, clock,
     session, recReturn >>

vars == << playerVars, recorderVars, registryVars >>

\* The object literal of _resetPlaybackState; repeat, repeatCount,
\* repeatIterations and suppressErrors are absent from it (undefined, falsy).
FreshState ==
  [ isPlaying |-> FALSE, currentMacro |-> "none", currentStepIndex |-> 0,
    playbackSpeed |-> 100, shouldPause |-> FALSE, shouldStop |-> FALSE,
    timeoutId |-> NoTimer,
    repeat |-> FALSE, repeatCount |-> 0, repeatIterations |-> 0,
    suppressErrors |-> FALSE ]

NoResult ==
  [kind |-> "none", success |-> FALSE, stopped |-> FALSE, stepsExecuted |-> 0, iterations |-> 0]

\* The host call a frame is waiting on: the simulator function with the
\* click position, or setTimeout with its delay.
NoCall == [fn |-> "none", x |-> 0, y |-> 0, ms |-> 0]

\* A call frame: pc is the await the call is suspended at.
\*   idle: not called yet      loading: await macroRecorder.getMacro(id)
\*   step: await of a click, keystroke or text action
\*   delay: await of the delay promise    pause: await _sleep(100)
\*   done: playMacro has returned or thrown
IdleRun ==
  [ pc |-> "idle", macro |-> "m0", opts |-> NoOptions,
    i |-> 0, iterations |-> 0, stepsExecuted |-> 0,
    armed |-> FALSE, call |-> NoCall ]

\* History of one playMacro call at a time, chosen when it is accepted: its options,
\* the orders of the steps it started, whether a step of it failed, whether a
\* stop was accepted while it ran (and while it waited in the pause loop), and
\* what it returned.
NoWatch ==
  [ run |-> 0, macro |-> "m0", opts |-> NoOptions, started |-> << >>,
    failed |-> FALSE, stopReq |-> FALSE, stopInPause |-> FALSE, result |-> NoResult ]

Active(r) == run[r].pc \in {"step", "delay", "pause"}

Steps(f) == SortByOrder(MacroLib[f.macro])

Event(e, idx, m) == [event |-> e, stepIndex |-> idx, macroId |-> m]

\* The working state threaded through one synchronous segment.
Cur == [ps |-> playbackState, run |-> run, w |-> watch, out |-> << >>]

Watched(S, r) == S.w.run = r

\* The observed call has returned (its history is dropped when the next call
\* is accepted), or no call is observed.
WatchOver(S) == IF S.w.run = 0 THEN TRUE ELSE S.run[S.w.run].pc = "done"

---------------------------------------------------------------------------
(* Code segments, as functions from working state to working state         *)

_notifyListeners(S, e, idx, m) == [S EXCEPT !.out = Append(@, Event(e, idx, m))]

\* clearTimeout(id): the timer armed by that call, if still pending, never fires.
ClearTimeout(S, id) ==
  IF id \in Runs THEN [S EXCEPT !.run[id].armed = FALSE] ELSE S

_resetPlaybackState(S) ==
  LET S1 == IF S.ps.timeoutId # NoTimer THEN ClearTimeout(S, S.ps.timeoutId) ELSE S
  IN  [S1 EXCEPT !.ps = FreshState]

\* _executePlayback returns res; playMacro runs its finally block, notifies
\* playbackComplete and returns res.
Return(S, r, kind) ==
  LET f   == S.run[r]
      res == [kind |-> kind, success |-> (kind = "success"), stopped |-> (kind = "stopped"),
              stepsExecuted |-> f.stepsExecuted, iterations |-> f.iterations]
      S1  == [S EXCEPT !.ps.isPlaying = FALSE, !.ps.shouldStop = FALSE,
                       !.ps.shouldPause = FALSE]
      S2  == IF S1.ps.timeoutId # NoTimer
             THEN [ClearTimeout(S1, S1.ps.timeoutId) EXCEPT !.ps.timeoutId = NoTimer]
             ELSE S1
      S3  == _notifyListeners(S2, "playbackComplete", NoIndex, f.macro)
      S4  == IF Watched(S3, r) THEN [S3 EXCEPT !.w.result = res] ELSE S3
  IN  [S4 EXCEPT !.run[r] = [IdleRun EXCEPT !.pc = "done"]]

\* _executeStep's switch for the input actions: the simulator function called
\* and, for a click without a target, the literal coordinates.
SimulatorCall(step) ==
  IF step.type = "click" THEN [NoCall EXCEPT !.fn = "simulateClick", !.x = step.x, !.y = step.y]
  ELSE IF step.type = "keyboard" THEN [NoCall EXCEPT !.fn = "simulateKeystroke"]
  ELSE IF step.type = "text" THEN [NoCall EXCEPT !.fn = "simulateTyping"]
  ELSE [NoCall EXCEPT !.fn = "throw"]

\* steps[i] is started: stepStart, then _executeStep up to its await.
Dispatch(S, r) ==
  LET f    == S.run[r]
      step == Steps(f)[f.i + 1]
      S0   == IF Watched(S, r) THEN [S EXCEPT !.w.started = Append(@, step.order)] ELSE S
      S1   == [S0 EXCEPT !.ps.currentStepIndex = f.i]
      S2   == _notifyListeners(S1, "stepStart", f.i, f.macro)
  IN  IF step.type = "delay"
      THEN [S2 EXCEPT !.run[r].pc = "delay", !.run[r].armed = TRUE,
                      !.run[r].call = [NoCall EXCEPT !.fn = "setTimeout",
                           !.ms = AdjustedDelay(step.duration, S2.ps.playbackSpeed)],
                      !.ps.timeoutId = r]
      ELSE [S2 EXCEPT !.run[r].pc = "step", !.run[r].call = SimulatorCall(step)]

\* Top of the for body: the stop check, then the pause loop.
LoopTop(S, r) ==
  IF S.ps.shouldStop THEN Return(S, r, "stopped")
  ELSE IF S.ps.shouldPause THEN [S EXCEPT !.run[r].pc = "pause"]
  ELSE Dispatch(S, r)

\* do { iterations++; ... currentStepIndex = 0; for (i = 0; ...
StartIteration(S, r) ==
  LET n  == S.run[r].iterations + 1
      S1 == [S EXCEPT !.run[r].iterations = n, !.run[r].i = 0,
                      !.ps.repeatIterations = n, !.ps.currentStepIndex = 0]
  IN  LoopTop(S1, r)

\* After the for loop: iterationComplete, then the while condition.
EndIteration(S, r) ==
  LET f  == S.run[r]
      S1 == _notifyListeners(S, "iterationComplete", NoIndex, f.macro)
  IN  IF S1.ps.repeat /\ f.iterations < S1.ps.repeatCount /\ ~S1.ps.shouldStop
      THEN StartIteration(S1, r)
      ELSE Return(S1, r, "success")

\* i++ and the loop test.
Advance(S, r) ==
  LET S1 == [S EXCEPT !.run[r].i = @ + 1]
  IN  IF S1.run[r].i < Len(Steps(S1.run[r])) THEN LoopTop(S1, r) ELSE EndIteration(S1, r)

\* The step counted without its stepComplete notification.
StepSucceeded_Silent(S, r) ==
  LET S1 == [S EXCEPT !.run[r].stepsExecuted = @ + 1]
  IN  Advance(S1, r)

StepSucceeded(S, r) ==
  LET S1 == [S EXCEPT !.run[r].stepsExecuted = @ + 1]
      S2 == _notifyListeners(S1, "stepComplete", S1.run[r].i, S1.run[r].macro)
  IN  Advance(S2, r)

StepFailed(S, r) ==
  LET S1 == IF Watched(S, r) THEN [S EXCEPT !.w.failed = TRUE] ELSE S
      S2 == _notifyListeners(S1, "stepError", S1.run[r].i, S1.run[r].macro)
  IN  IF ~S2.ps.suppressErrors THEN Return(S2, r, "error") ELSE Advance(S2, r)

\* playMacro from _resetPlaybackState() to the first await of the run.
BeginPlayback(S, r, m, o, obs) ==
  LET S1 == _resetPlaybackState(S)
      S2 == [S1 EXCEPT !.ps.isPlaying = TRUE, !.ps.currentMacro = m,
                       !.ps.playbackSpeed = OrDefault(o.speed, 100),
                       !.ps.repeat = o.repeat,
                       !.ps.repeatCount = OrDefault(o.repeatCount, 1),
                       !.ps.repeatIterations = 0,
                       !.ps.suppressErrors = o.suppressErrors]
      S3 == _notifyListeners(S2, "playbackStart", NoIndex, m)
      S4 == [S3 EXCEPT !.run[r] = [IdleRun EXCEPT !.macro = m]]
      S5 == IF obs THEN [S4 EXCEPT !.w = [NoWatch EXCEPT !.run = r, !.macro = m, !.opts = o]]
            ELSE IF WatchOver(S4) THEN [S4 EXCEPT !.w = NoWatch]
            ELSE S4
  IN  StartIteration(S5, r)

\* The pending paused index is dropped whenever the pause flag is cleared.
Commit(S, v) ==
  /\ playbackState' = S.ps
  /\ run' = S.run
  /\ watch' = S.w
  /\ pausedAt' = IF S.ps.shouldPause THEN pausedAt ELSE NoIndex
  /\ emitted' = S.out
  /\ ret' = v
  /\ UNCHANGED << recorderVars, registryVars >>

---------------------------------------------------------------------------
(* The recorder: data                                                      *)

\* Number of startRecording calls that get past the isRecording guard.
MaxSessions == 2
\* Most steps a recorded macro grows to.
MaxSteps == 3
\* Latest time the clock is advanced to, in milliseconds.
MaxClock == 900

\* The three feeds: click performed, key pressed, text typed.
Feeds == {"click", "key", "text"}
\* Time that passes between two calls, in milliseconds.
Gaps == {300, 500, 600}
\* _addDelayIfNeeded: a delay step is added for a gap above this.
DelayThreshold == 500

NoTarget == "null"
NoMacro == [id |-> "none", name |-> "", steps |-> << >>]

createClickAction(x, y, targetId) ==
  [type |-> "click", x |-> x, y |-> y, targetId |-> targetId, duration |-> 0]
createKeyboardAction == [type |-> "keyboard", x |-> 0, y |-> 0, targetId |-> NoTarget, duration |-> 0]
createTextInputAction == [type |-> "text", x |-> 0, y |-> 0, targetId |-> NoTarget, duration |-> 0]
createDelayAction(duration) ==
  [type |-> "delay", x |-> 0, y |-> 0, targetId |-> NoTarget, duration |-> duration]
createMacroStep(action, order) == [action |-> action, order |-> order]
createMacro(id, name) == [id |-> id, name |-> name, steps |-> << >>]

\* The macro the storage file holds at startup.
StoredMacro ==
  [id |-> "e1", name |-> "old", steps |-> << createMacroStep(createKeyboardAction, 0) >>]

\* The id generateUniqueId gives the macro of the n-th session.
NewId(n) == IF n = 1 THEN "r1" ELSE IF n = 2 THEN "r2" ELSE "r3"

\* options of startRecording: existingId (absent, stored, unknown) and clearSteps.
StartOptions ==
  { [existingId |-> e, clearSteps |-> c] : e \in {"none", "e1", "zz"}, c \in BOOLEAN }

\* Input events: a click at a point of a display, a key press, typed text.
ClickEvents ==
  { [feed |-> "click", x |-> 10, y |-> 10, display |-> d] : d \in {0, 1} }
InputEvents ==
  ClickEvents \cup { [feed |-> f, x |-> 0, y |-> 0, display |-> 0] : f \in {"key", "text"} }

\* Arguments of saveMacro: a macro without steps.
SaveInputs == { [id |-> "s0", name |-> "saved", steps |-> << >>] }

\* A macro whose one step has order 1: distinct orders that are not 0..n-1.
GapMacro ==
  [id |-> "g1", name |-> "gap", steps |-> << createMacroStep(createKeyboardAction, 1) >>]

\* The places the target t1 is created at or moved to.
TargetSpots == { [id |-> "t1", x |-> 10, y |-> 10, screenId |-> d] : d \in {0, 1} }

FreshRecording ==
  [ isRecording |-> FALSE, currentMacro |-> NoMacro, shared |-> FALSE,
    lastActionTime |-> 0, eventListeners |-> {}, targetIds |-> {} ]

NoSession ==
  [ id |-> 0, before |-> << >>, fresh |-> FALSE, events |-> 0, disturbed |-> FALSE,
    live |-> FALSE, ended |-> 0 ]

\* this._macros.findIndex(m => m.id === id): 0 when absent.
FindIndex(ms, id) ==
  IF \E k \in 1..Len(ms) : ms[k].id = id
  THEN CHOOSE k \in 1..Len(ms) : ms[k].id = id /\ \A j \in 1..(k - 1) : ms[j].id # id
  ELSE 0

\* macros[existingIndex] = macro, or macros.push(macro).
PutMacro(ms, m) ==
  IF FindIndex(ms, m.id) # 0 THEN [ms EXCEPT ![FindIndex(ms, m.id)] = m] ELSE Append(ms, m)

\* The recorder's working state threaded through one synchronous segment.
RecCur == [rs |-> recordingState, ms |-> macros, n |-> 0]

\* A write to the macro being recorded; when that object is the one held in
\* _macros the collection shows the write.
SetCurrent(R, m) ==
  LET R1 == [R EXCEPT !.rs.currentMacro = m]
  IN  IF R.rs.shared /\ FindIndex(R.ms, m.id) # 0
      THEN [R1 EXCEPT !.ms[FindIndex(R.ms, m.id)] = m]
      ELSE R1

---------------------------------------------------------------------------
(* The recorder: code segments                                             *)

\* macro.steps.push(createMacroStep(action, macro.steps.length))
_addStepToMacro(R, action) ==
  LET m == R.rs.currentMacro
  IN  IF m = NoMacro THEN R
      ELSE SetCurrent([R EXCEPT !.n = @ + 1],
                      [m EXCEPT !.steps = Append(@, createMacroStep(action, Len(m.steps)))])

\* The delay added from the threshold on, not only above it.
_addDelayIfNeeded_AtLeast(R, now) ==
  LET timeSinceLastAction == now - R.rs.lastActionTime
  IN  IF timeSinceLastAction >= DelayThreshold
      THEN _addStepToMacro(R, createDelayAction(timeSinceLastAction))
      ELSE R

_addDelayIfNeeded(R, now) ==
  LET timeSinceLastAction == now - R.rs.lastActionTime
  IN  IF timeSinceLastAction > DelayThreshold
      THEN _addStepToMacro(R, createDelayAction(timeSinceLastAction))
      ELSE R

\* targetIds.get(`${x},${y},0`): the screen id of the key is the literal 0.
LookupTarget(R, x, y) ==
  LET hits == { e \in R.rs.targetIds : e.x = x /\ e.y = y /\ e.screenId = 0 }
  IN  IF hits = {} THEN NoTarget ELSE (CHOOSE e \in hits : TRUE).id

_recordMouseClick(R, x, y, now) ==
  IF ~R.rs.isRecording \/ R.rs.currentMacro = NoMacro THEN R
  ELSE LET R1 == _addDelayIfNeeded(R, now)
           R2 == _addStepToMacro(R1, createClickAction(x, y, LookupTarget(R1, x, y)))
       IN  [R2 EXCEPT !.rs.lastActionTime = now]

\* The key press recorded whenever a macro is at hand, recording or not.
_recordKeyPress_Unguarded(R, now) ==
  IF R.rs.currentMacro = NoMacro THEN R
  ELSE LET R1 == _addDelayIfNeeded(R, now)
           R2 == _addStepToMacro(R1, createKeyboardAction)
       IN  [R2 EXCEPT !.rs.lastActionTime = now]

_recordKeyPress(R, now) ==
  IF ~R.rs.isRecording \/ R.rs.currentMacro = NoMacro THEN R
  ELSE LET R1 == _addDelayIfNeeded(R, now)
           R2 == _addStepToMacro(R1, createKeyboardAction)
       IN  [R2 EXCEPT !.rs.lastActionTime = now]

_recordTextInput(R, now) ==
  IF ~R.rs.isRecording \/ R.rs.currentMacro = NoMacro THEN R
  ELSE LET R1 == _addDelayIfNeeded(R, now)
           R2 == _addStepToMacro(R1, createTextInputAction)
       IN  [R2 EXCEPT !.rs.lastActionTime = now]

\* One registered handler called with the event.
Handle(R, ev, now) ==
  IF ev.feed = "click" THEN _recordMouseClick(R, ev.x, ev.y, now)
  ELSE IF ev.feed = "key" THEN _recordKeyPress(R, now)
  ELSE _recordTextInput(R, now)

\* The feed calls each of the n handlers registered with it.
RECURSIVE HandleAll(_, _, _, _)
HandleAll(R, ev, now, n) ==
  IF n = 0 THEN R ELSE HandleAll(Handle(R, ev, now), ev, now, n - 1)

HandlersOf(f) == { h \in hostHandlers : h[2] = f }

\* eventListeners.forEach(removeListener => removeListener())
RemoveListeners(hs, R) == hs \ R.rs.eventListeners

\* fs.writeFileSync of the whole collection; a failed write leaves the file.
saveMacros(ms, writeOk) == IF writeOk THEN ms ELSE disk

RecCommit(R, v) ==
  /\ recordingState' = R.rs
  /\ macros' = R.ms
  /\ recReturn' = v
  /\ UNCHANGED << playerVars, registryVars >>

\* The module literal of MacroRecorder; the storage file of an earlier run.
RecorderInit ==
  /\ recordingState = FreshRecording
  /\ macros = << >>
  /\ disk = << StoredMacro >>
  /\ targets = {}
  /\ dependencies = [ready |-> FALSE, required |-> FALSE, hooks |-> {}]
  /\ hostHandlers = {}
  /\ setup = 0
  /\ clock = 0
  /\ session = NoSession
  /\ recReturn = "none"

---------------------------------------------------------------------------
(* The target manager and the coordinate functions: data                   *)

\* Number of targets that createTarget is given an id for.
MaxTargets == 2

\* A display of the layout (ScreenInfo): id, origin and size in pixels.
Display(id, x, y) == [id |-> id, x |-> x, y |-> y, width |-> 1920, height |-> 1080]

\* Display layouts as screen.getAllDisplays() lists them: one display; a second
\* display to the right of the primary one; the second display listed first
\* and placed to the left; two mirrored displays showing the same rectangle.
Layouts ==
  { << Display(1, 0, 0) >>,
    << Display(1, 0, 0), Display(2, 1920, 0) >>,
    << Display(2, -1920, 0), Display(1, 0, 0) >>,
    << Display(1, 0, 0), Display(2, 0, 0) >> }

FirstLayout == << Display(1, 0, 0), Display(2, 1920, 0) >>

\* Global points given to createTarget and updateTarget, in tenths of a
\* pixel: (50, 50), (1970, 50), (1919.6, 50) and (-5, -5).
GlobalPoints == { << 500, 500 >>, << 19700, 500 >>, << 19196, 500 >>, << -50, -50 >> }

\* clickType and clickCount given to createTarget.
ClickKinds == { [clickType |-> "left", clickCount |-> 1],
                [clickType |-> "double", clickCount |-> 3] }

\* The ids generateUniqueId gives the targets: the first one not in use.
TargetIds == 1..MaxTargets
NewTargetId(ts) == CHOOSE n \in TargetIds : /\ \A t \in ts : t.id # n
                                            /\ \A m \in 1..(n - 1) : \E t \in ts : t.id = m

\* Math.round of a value held in tenths.
Round(tenths) == (tenths + 5) \div 10

\* createCoordinates(x, y, screenId), x and y in tenths.
createCoordinates(x, y, screenId) == [x |-> Round(x), y |-> Round(y), screenId |-> screenId]

\* screens.find(predicate) || screens[0]
FindOrFirst(screens, found) ==
  IF found # {}
  THEN screens[CHOOSE k \in found : \A j \in found : k <= j]
  ELSE screens[1]

\* A point outside every display moved to the nearest pixel of the first one.
globalToScreenCoordinates_Clamped(globalX, globalY, screens) ==
  LET found  == { k \in 1..Len(screens) :
                    /\ globalX >= 10 * screens[k].x
                    /\ globalX < 10 * (screens[k].x + screens[k].width)
                    /\ globalY >= 10 * screens[k].y
                    /\ globalY < 10 * (screens[k].y + screens[k].height) }
      screen == FindOrFirst(screens, found)
      Clamp(v, n) == IF v < 0 THEN 0 ELSE IF v > 10 * (n - 1) THEN 10 * (n - 1) ELSE v
  IN  createCoordinates(Clamp(globalX - 10 * screen.x, screen.width),
                        Clamp(globalY - 10 * screen.y, screen.height), screen.id)

\* The offset of the display left out.
globalToScreenCoordinates_NoOffset(globalX, globalY, screens) ==
  LET found  == { k \in 1..Len(screens) :
                    /\ globalX >= 10 * screens[k].x
                    /\ globalX < 10 * (screens[k].x + screens[k].width)
                    /\ globalY >= 10 * screens[k].y
                    /\ globalY < 10 * (screens[k].y + screens[k].height) }
      screen == FindOrFirst(screens, found)
  IN  createCoordinates(globalX, globalY, screen.id)

\* globalX and globalY in tenths of a pixel.
globalToScreenCoordinates(globalX, globalY, screens) ==
  LET found  == { k \in 1..Len(screens) :
                    /\ globalX >= 10 * screens[k].x
                    /\ globalX < 10 * (screens[k].x + screens[k].width)
                    /\ globalY >= 10 * screens[k].y
                    /\ globalY < 10 * (screens[k].y + screens[k].height) }
      screen == FindOrFirst(screens, found)
  IN  createCoordinates(globalX - 10 * screen.x, globalY - 10 * screen.y, screen.id)

\* The last display of the list taken when none has the id.
screenToGlobalCoordinates_Last(coords, screens) ==
  LET found  == { k \in 1..Len(screens) : screens[k].id = coords.screenId }
      screen == IF found # {} THEN FindOrFirst(screens, found) ELSE screens[Len(screens)]
  IN  [x |-> coords.x + screen.x, y |-> coords.y + screen.y]

screenToGlobalCoordinates(coords, screens) ==
  LET found  == { k \in 1..Len(screens) : screens[k].id = coords.screenId }
      screen == FindOrFirst(screens, found)
  IN  [x |-> coords.x + screen.x, y |-> coords.y + screen.y]

\* What reading the targets file at load time comes to.
ReadOutcomes == { "ok", "missing", "unreadable", "malformed" }

\* The simulator operation in progress or just finished: its name, its
\* arguments and the buttons and keys that were held when it was called.
Invocation(name, button, held, count, before) ==
  [name |-> name, button |-> button, held |-> held, count |-> count, before |-> before]
NoInvocation == Invocation("none", "", {}, 0, {})
NoHost == [buttons |-> {}, mods |-> {}, log |-> << >>, op |-> NoInvocation]

\* createTarget(name, coordinates, options) of target-types.js.
createTarget(id, coordinates, kind) ==
  [ id |-> id, x |-> coordinates.x, y |-> coordinates.y, screenId |-> coordinates.screenId,
    clickType |-> kind.clickType, clickCount |-> kind.clickCount ]

\* A simulateClick(x, y, {clickType, clickCount}) call.
ClickCall(x, y, clickType, clickCount) ==
  [x |-> x, y |-> y, clickType |-> clickType, clickCount |-> clickCount]

\* fs.writeFileSync of the whole collection; a failed write leaves the file.
saveTargets(ts, writeOk) == IF writeOk THEN ts ELSE targetsFile

\* The module literals of TargetManager and of the simulators; the layout
\* the displays are in at startup.
RegistryInit ==
  /\ displays = FirstLayout
  /\ targetsFile = {}
  /\ clicks = << >>
  /\ tmReady = FALSE
  /\ tmReturn = "none"
  /\ host = NoHost
  /\ simReturn = "none"

---------------------------------------------------------------------------
(* The target manager: operations                                          *)

\* What a target manager operation leaves alone.
RegistryFrame ==
  /\ UNCHANGED << recordingState, macros, disk, dependencies, hostHandlers, setup, clock,
                  session, recReturn >>
  /\ UNCHANGED << host, simReturn >>
  /\ UNCHANGED playerVars

\* The collection kept as it is when the read fails.
loadTargets_Keep(read) == IF read = "ok" THEN targetsFile ELSE targets

\* loadTargets(): the collection after the load.
loadTargets(read) == IF read = "ok" THEN targetsFile ELSE {}

\* initialize(options): the click simulator is stored, the targets loaded.
InitializeTargets(read) ==
  /\ ~tmReady
  /\ tmReady' = TRUE
  /\ targets' = loadTargets(read)
  /\ tmReturn' = "ok"
  /\ clicks' = << >>
  /\ UNCHANGED << displays, targetsFile >>
  /\ RegistryFrame

\* loadTargets() called again.
LoadTargets(read) ==
  /\ tmReady
  /\ targets' = loadTargets(read)
  /\ tmReturn' = "ok"
  /\ clicks' = << >>
  /\ UNCHANGED << displays, targetsFile, tmReady >>
  /\ RegistryFrame

\* createTarget({name, x, y, clickType, clickCount}), x and y global.
CreateTarget(point, kind, writeOk) ==
  /\ tmReady
  /\ Cardinality(targets) < MaxTargets
  /\ LET coordinates == globalToScreenCoordinates(point[1], point[2], displays)
         target      == createTarget(NewTargetId(targets), coordinates, kind)
     IN  /\ targets' = targets \cup { target }
         /\ targetsFile' = saveTargets(targets', writeOk)
  /\ tmReturn' = "ok"
  /\ clicks' = << >>
  /\ UNCHANGED << displays, tmReady >>
  /\ RegistryFrame

\* createTarget({id, name, x, y, clickType, clickCount}): the caller's id is
\* passed on as options.id and used as it is.
CreateTargetWithId(id, point, kind, writeOk) ==
  /\ tmReady
  /\ Cardinality(targets) < MaxTargets
  /\ LET coordinates == globalToScreenCoordinates(point[1], point[2], displays)
         target      == createTarget(id, coordinates, kind)
     IN  /\ targets' = targets \cup { target }
         /\ targetsFile' = saveTargets(targets', writeOk)
  /\ tmReturn' = "ok"
  /\ clicks' = << >>
  /\ UNCHANGED << displays, tmReady >>
  /\ RegistryFrame

\* updateTarget(id, {x, y}), x and y global.
UpdateTarget(id, point, writeOk) ==
  /\ tmReady
  /\ IF \E t \in targets : t.id = id
     THEN LET existingTarget == CHOOSE t \in targets : t.id = id
              coordinates    == globalToScreenCoordinates(point[1], point[2], displays)
              updatedTarget  == [existingTarget EXCEPT !.x = coordinates.x,
                                                       !.y = coordinates.y,
                                                       !.screenId = coordinates.screenId]
          IN  /\ targets' = (targets \ { existingTarget }) \cup { updatedTarget }
              /\ targetsFile' = saveTargets(targets', writeOk)
              /\ tmReturn' = "ok"
     ELSE /\ tmReturn' = "throw"
          /\ UNCHANGED << targets, targetsFile >>
  /\ clicks' = << >>
  /\ UNCHANGED << displays, tmReady >>
  /\ RegistryFrame

\* deleteTarget(id)
DeleteTarget(id, writeOk) ==
  /\ tmReady
  /\ IF \E t \in targets : t.id = id
     THEN /\ targets' = { t \in targets : t.id # id }
          /\ targetsFile' = saveTargets(targets', writeOk)
          /\ tmReturn' = "true"
     ELSE /\ tmReturn' = "false"
          /\ UNCHANGED << targets, targetsFile >>
  /\ clicks' = << >>
  /\ UNCHANGED << displays, tmReady >>
  /\ RegistryFrame

\* clearAllTargets()
ClearAllTargets(writeOk) ==
  /\ tmReady
  /\ targets' = {}
  /\ targetsFile' = saveTargets(targets', writeOk)
  /\ tmReturn' = "true"
  /\ clicks' = << >>
  /\ UNCHANGED << displays, tmReady >>
  /\ RegistryFrame

\* testTarget(id) clicking at the local coordinates, the display origin left out.
TestTarget_Local(id, simOk) ==
  /\ IF tmReady /\ \E t \in targets : t.id = id
     THEN LET target == CHOOSE t \in targets : t.id = id
          IN  /\ clicks' = << ClickCall(target.x, target.y, target.clickType,
                                        target.clickCount) >>
              /\ tmReturn' = IF simOk THEN "true" ELSE "throw"
     ELSE /\ clicks' = << >>
          /\ tmReturn' = "throw"
  /\ UNCHANGED << targets, displays, targetsFile, tmReady >>
  /\ RegistryFrame

\* testTarget(id); simOk is whether simulateClick succeeds.
TestTarget(id, simOk) ==
  /\ IF tmReady /\ \E t \in targets : t.id = id
     THEN LET target       == CHOOSE t \in targets : t.id = id
              globalCoords == screenToGlobalCoordinates(
                                [x |-> target.x, y |-> target.y, screenId |-> target.screenId],
                                displays)
          IN  /\ clicks' = << ClickCall(globalCoords.x, globalCoords.y, target.clickType,
                                        target.clickCount) >>
              /\ tmReturn' = IF simOk THEN "true" ELSE "throw"
     ELSE /\ clicks' = << >>
          /\ tmReturn' = "throw"
  /\ UNCHANGED << targets, displays, targetsFile, tmReady >>
  /\ RegistryFrame

\* The members of the TargetManager object.
TargetManagerMethods ==
  { "initialize", "loadTargets", "saveTargets", "createTarget", "getTarget", "getAllTargets",
    "updateTarget", "deleteTarget", "clearAllTargets", "testTarget", "_validateTarget" }

\* Click steps handed to the player: without a target and naming a target.
NoTargetId == 0
ClickActions == { [targetId |-> id, x |-> 100, y |-> 100] : id \in {NoTargetId} \cup TargetIds }

\* MacroPlayer._executeClickAction(action) with the target manager as the
\* player's targetManager dependency.  Calling a member the object does not
\* have raises a TypeError, which the catch around the resolution swallows.
ExecuteClickAction(action) ==
  /\ tmReady
  /\ LET direct == ClickCall(action.x, action.y, "left", 1)
     IN  IF action.targetId # NoTargetId /\ \E t \in targets : t.id = action.targetId
         THEN LET target == CHOOSE t \in targets : t.id = action.targetId
                  globalCoords == screenToGlobalCoordinates(
                                    [x |-> target.x, y |-> target.y,
                                     screenId |-> target.screenId], displays)
              IN  IF { "getAllScreens", "screenToGlobalCoordinates" } \subseteq TargetManagerMethods
                  THEN clicks' = << ClickCall(globalCoords.x, globalCoords.y,
                                              target.clickType, target.clickCount) >>
                  ELSE clicks' = << direct >>
         ELSE clicks' = << direct >>
  /\ UNCHANGED << targets, displays, targetsFile, tmReady, tmReturn, host, simReturn >>
  /\ UNCHANGED << recordingState, macros, disk, dependencies, hostHandlers, setup, clock,
                  session, recReturn >>
  /\ UNCHANGED playerVars

\* The target managers a caller can hand to MacroPlayer.initialize as
\* options.targetManager: the TargetManager object, and an object that also
\* has the two members _executeClickAction calls on it.
ResolvingMethods == { "getTarget", "getAllScreens", "screenToGlobalCoordinates" }
PlayerTargetManagers == { TargetManagerMethods, TargetManagerMethods \cup ResolvingMethods }

\* Which of the simulateClick calls of one click step raise, by their
\* position among the step's calls.
ClickFaults == SUBSET {1, 2}

\* MacroPlayer._executeClickAction(action) with a target manager having the
\* members `methods`, the simulateClick calls numbered in `fails` raising.
\* The click at the resolved coordinates is inside the try; the click at the
\* step's coordinates follows the catch.  simReturn is how the step's last
\* simulateClick ended, which is how the step ends.
ExecuteClickActionWith(action, methods, fails) ==
  /\ tmReady
  /\ simReturn = "none"
  /\ LET direct == ClickCall(action.x, action.y, "left", 1)
         Ret(k) == IF k \in fails THEN "throw" ELSE "ok"
     IN  IF /\ action.targetId # NoTargetId
            /\ \E t \in targets : t.id = action.targetId
            /\ ResolvingMethods \subseteq methods
         THEN LET target == CHOOSE t \in targets : t.id = action.targetId
                  globalCoords == screenToGlobalCoordinates(
                                    [x |-> target.x, y |-> target.y,
                                     screenId |-> target.screenId], displays)
                  resolved == ClickCall(globalCoords.x, globalCoords.y,
                                        target.clickType, target.clickCount)
              IN  IF 1 \in fails
                  THEN /\ clicks' = << resolved, direct >>
                       /\ simReturn' = Ret(2)
                  ELSE /\ clicks' = << resolved >>
                       /\ simReturn' = "ok"
         ELSE /\ clicks' = << direct >>
              /\ simReturn' = Ret(1)
  /\ UNCHANGED << targets, displays, targetsFile, tmReady, tmReturn, host >>
  /\ UNCHANGED << recordingState, macros, disk, dependencies, hostHandlers, setup, clock,
                  session, recReturn >>
  /\ UNCHANGED playerVars

\* The operating system reports another display layout.
ChangeLayout(l) ==
  /\ l # displays
  /\ displays' = l
  /\ UNCHANGED << targets, targetsFile, clicks, tmReady, tmReturn >>
  /\ RegistryFrame

---------------------------------------------------------------------------
(* The input simulators (click-simulator.js, keyboard-handler.js) and the  *)
(* host they drive through robotjs.  A host call either takes effect or    *)
(* raises; which calls of an operation raise is an input of the operation. *)

\* The try blocks of an operation, the second in the catch of the first: each
\* ends at its first call that raises, so no more calls of an operation raise.
TryBlocks == 2
\* Largest clickCount passed to simulateClick.
MaxClicks == 3

Buttons == { "left", "right" }
Modifiers == << "shift", "control", "alt", "command" >>
ModifierSets == SUBSET { "shift", "control", "alt", "command" }

\* The host calls of the longest operation: simulateKeystroke with four
\* modifiers pressed, the key tapped, four released, four released again.
CallIndices == 1..(4 + 1 + 4 + 4)
FaultSets == { f \in SUBSET CallIndices : Cardinality(f) <= TryBlocks }

\* robot.moveMouse, robot.mouseToggle, robot.mouseClick, robot.keyToggle, robot.keyTap
HostCall(fn, key, dir) == [fn |-> fn, key |-> key, dir |-> dir]
MoveMouse == HostCall("moveMouse", "", "")
MouseToggle(dir, button) == HostCall("mouseToggle", button, dir)
MouseClick(button) == HostCall("mouseClick", button, "")
KeyToggle(key, dir) == HostCall("keyToggle", key, dir)
KeyTap == HostCall("keyTap", "key", "")

\* What a host call that does not raise does to the held buttons and keys.
Apply(h, c) ==
  IF c.fn = "mouseToggle"
  THEN [h EXCEPT !.buttons = IF c.dir = "down" THEN @ \cup {c.key} ELSE @ \ {c.key}]
  ELSE IF c.fn = "keyToggle"
  THEN [h EXCEPT !.mods = IF c.dir = "down" THEN @ \cup {c.key} ELSE @ \ {c.key}]
  ELSE h

\* The calls made one after the other from the k-th call of the operation
\* on, up to the first that raises.
RECURSIVE RunCalls(_, _, _, _)
RunCalls(h, calls, faults, k) ==
  IF calls = << >> THEN [h |-> h, failed |-> FALSE, k |-> k]
  ELSE IF k \in faults
  THEN [h |-> [h EXCEPT !.log = Append(@, [call |-> Head(calls), raised |-> TRUE])],
        failed |-> TRUE, k |-> k + 1]
  ELSE RunCalls([Apply(h, Head(calls)) EXCEPT
                   !.log = Append(@, [call |-> Head(calls), raised |-> FALSE])],
                Tail(calls), faults, k + 1)

\* try { main } catch (error) { try { cleanup } catch (e) {} throw error }
TryCatch(h, main, cleanup, faults) ==
  LET r == RunCalls([h EXCEPT !.log = << >>], main, faults, 1)
  IN  IF r.failed
      THEN [h |-> RunCalls(r.h, cleanup, faults, r.k).h, ret |-> "throw"]
      ELSE [h |-> r.h, ret |-> "ok"]

\* simulateDrag(startX, startY, endX, endY, {button}): the move to the start,
\* the button pressed, a waypoint and the end point, the button released.
simulateDrag(h, button, faults) ==
  TryCatch(h,
           << MoveMouse, MouseToggle("down", button), MoveMouse, MoveMouse,
              MouseToggle("up", button) >>,
           << MouseToggle("up", "left"), MouseToggle("up", "right") >>,
           faults)

\* The modifiers of the set in the order of the list, or in the reverse order.
RECURSIVE Toggles(_, _, _)
Toggles(keys, held, dir) ==
  IF keys = << >> THEN << >>
  ELSE (IF Head(keys) \in held THEN << KeyToggle(Head(keys), dir) >> ELSE << >>)
         \o Toggles(Tail(keys), held, dir)

Reverse(keys) == [k \in 1..Len(keys) |-> keys[Len(keys) + 1 - k]]

\* simulateKeystroke(key, {shift, control, alt, meta})
simulateKeystroke(h, held, faults) ==
  TryCatch(h,
           Toggles(Modifiers, held, "down") \o << KeyTap >>
             \o Toggles(Reverse(Modifiers), held, "up"),
           Toggles(Modifiers, { "shift", "control", "alt", "command" }, "up"),
           faults)

\* count presses of a button
Presses(button, count) == [k \in 1..count |-> MouseClick(button)]

\* A double click making clickCount presses.
simulateClick_Counted(h, clickType, clickCount, faults) ==
  TryCatch(h,
           << MoveMouse >> \o
             (IF clickType = "double" THEN Presses("left", clickCount)
              ELSE Presses(clickType, clickCount)),
           << >>, faults)

\* simulateClick(x, y, {clickType, clickCount})
simulateClick(h, clickType, clickCount, faults) ==
  TryCatch(h,
           << MoveMouse >> \o
             (IF clickType = "double" THEN Presses("left", 2)
              ELSE Presses(clickType, clickCount)),
           << >>, faults)

\* What a simulator operation leaves alone.
SimFrame ==
  /\ UNCHANGED << displays, targetsFile, clicks, tmReady, tmReturn >>
  /\ UNCHANGED recorderVars
  /\ UNCHANGED playerVars

SimulateDrag(button, faults) ==
  /\ simReturn = "none"
  /\ LET r == simulateDrag(host, button, faults)
     IN  /\ host' = [r.h EXCEPT !.op = Invocation("simulateDrag", button, {}, 0, host.buttons)]
         /\ simReturn' = r.ret
  /\ SimFrame

SimulateKeystroke(held, faults) ==
  /\ simReturn = "none"
  /\ LET r == simulateKeystroke(host, held, faults)
     IN  /\ host' = [r.h EXCEPT !.op = Invocation("simulateKeystroke", "", held, 0, host.mods)]
         /\ simReturn' = r.ret
  /\ SimFrame

SimulateClick(clickType, clickCount, faults) ==
  /\ simReturn = "none"
  /\ LET r == simulateClick(host, clickType, clickCount, faults)
     IN  /\ host' = [r.h EXCEPT !.op = Invocation("simulateClick", clickType, {}, clickCount, {})]
         /\ simReturn' = r.ret
  /\ SimFrame

\* The caller awaiting the operation resumes with its result or its error.
SimReturned ==
  /\ simReturn # "none"
  /\ simReturn' = "none"
  /\ host' = [host EXCEPT !.log = << >>, !.op = NoInvocation]
  /\ SimFrame

---------------------------------------------------------------------------
Init ==
  /\ playbackState = FreshState
  /\ run = [r \in Runs |-> IdleRun]
  /\ watch = NoWatch
  /\ pausedAt = NoIndex
  /\ emitted = << >>
  /\ ret = TRUE
  /\ RecorderInit
  /\ RegistryInit

NextSlot(r) == run[r].pc = "idle" /\ \A q \in 1..(r - 1) : run[q].pc # "idle"

\* playMacro(macroObject, options), accepted.
PlayMacro(r, m, o, obs) ==
  /\ NextSlot(r)
  /\ ~playbackState.isPlaying
  /\ Len(MacroLib[m]) > 0
  /\ obs => WatchOver(Cur)
  /\ LET S == BeginPlayback(Cur, r, m, o, obs)
     IN  Commit(S, TRUE)

\* The start notification sent before the macro is looked at.
PlayMacroRejected_AfterStart(m) ==
  /\ playbackState.isPlaying \/ Len(MacroLib[m]) = 0
  /\ LET S1 == _notifyListeners(Cur, "playbackStart", NoIndex, m)
         S  == _resetPlaybackState(S1)
     IN  Commit(S, FALSE)

\* playMacro throwing before the run starts ('Already playing a macro',
\* 'Cannot play a macro with no steps'): the outer catch resets the state.
PlayMacroRejected(m) ==
  /\ playbackState.isPlaying \/ Len(MacroLib[m]) = 0
  /\ LET S == _resetPlaybackState(Cur)
     IN  Commit(S, FALSE)

\* playMacro(macroId, options): passes the guard and awaits getMacro.
PlayMacroById(r, m, o) ==
  /\ NextSlot(r)
  /\ ~playbackState.isPlaying
  /\ LET S == [Cur EXCEPT !.run[r] = [IdleRun EXCEPT !.pc = "loading", !.macro = m, !.opts = o]]
     IN  Commit(S, TRUE)

\* getMacro resolved: the empty check, then the run starts.
LoadDone(r, obs) ==
  /\ run[r].pc = "loading"
  /\ obs => WatchOver(Cur) /\ Len(MacroLib[run[r].macro]) > 0
  /\ LET f == run[r]
         S == IF Len(MacroLib[f.macro]) = 0
              THEN [_resetPlaybackState(Cur) EXCEPT !.run[r] = [IdleRun EXCEPT !.pc = "done"]]
              ELSE BeginPlayback(Cur, r, f.macro, f.opts, obs)
     IN  Commit(S, Len(MacroLib[f.macro]) > 0)

\* The awaited click, keystroke or text action settles.
StepDone(r, ok) ==
  /\ run[r].pc = "step"
  /\ ok => run[r].call.fn # "throw"
  /\ LET S == IF ok THEN StepSucceeded(Cur, r) ELSE StepFailed(Cur, r)
     IN  Commit(S, ok)

\* The delay timer fires and resolves the delay promise.
TimerFires(r) ==
  /\ run[r].pc = "delay"
  /\ run[r].armed
  /\ LET S0 == [Cur EXCEPT !.run[r].armed = FALSE]
         S  == StepSucceeded(S0, r)
     IN  Commit(S, TRUE)

\* _sleep(100) of the pause loop is over; while the flag stays set and no
\* stop was requested the loop sleeps again, which changes nothing.
AfterSleep(r) ==
  /\ run[r].pc = "pause"
  /\ playbackState.shouldStop \/ ~playbackState.shouldPause
  /\ LET S == IF playbackState.shouldStop THEN Return(Cur, r, "stopped")
              ELSE Dispatch(Cur, r)
     IN  Commit(S, TRUE)

\* The flag set and the notification sent whenever a session is active.
PausePlayback_Renotify ==
  IF ~playbackState.isPlaying
  THEN Commit(Cur, FALSE)
  ELSE LET S1 == [Cur EXCEPT !.ps.shouldPause = TRUE]
           S  == _notifyListeners(S1, "playbackPaused", S1.ps.currentStepIndex,
                                  S1.ps.currentMacro)
       IN  /\ playbackState' = S.ps
           /\ run' = S.run
           /\ watch' = S.w
           /\ pausedAt' = S.ps.currentStepIndex
           /\ emitted' = S.out
           /\ ret' = TRUE
           /\ UNCHANGED << recorderVars, registryVars >>

PausePlayback ==
  IF ~playbackState.isPlaying
  THEN Commit(Cur, FALSE)
  ELSE IF playbackState.shouldPause
  THEN Commit(Cur, TRUE)
  ELSE LET S1 == [Cur EXCEPT !.ps.shouldPause = TRUE]
           S  == _notifyListeners(S1, "playbackPaused", S1.ps.currentStepIndex,
                                  S1.ps.currentMacro)
       IN  /\ playbackState' = S.ps
           /\ run' = S.run
           /\ watch' = S.w
           /\ pausedAt' = S.ps.currentStepIndex
           /\ emitted' = S.out
           /\ ret' = TRUE
           /\ UNCHANGED << recorderVars, registryVars >>

ResumePlayback ==
  IF ~playbackState.isPlaying
  THEN Commit(Cur, FALSE)
  ELSE IF ~playbackState.shouldPause
  THEN Commit(Cur, TRUE)
  ELSE LET S1 == [Cur EXCEPT !.ps.shouldPause = FALSE]
           S  == _notifyListeners(S1, "playbackResumed", S1.ps.currentStepIndex,
                                  S1.ps.currentMacro)
       IN  /\ playbackState' = S.ps
           /\ run' = S.run
           /\ watch' = S.w
           /\ pausedAt' = pausedAt
           /\ emitted' = S.out
           /\ ret' = TRUE
           /\ UNCHANGED << recorderVars, registryVars >>

StopPlayback ==
  IF ~playbackState.isPlaying
  THEN Commit(Cur, FALSE)
  ELSE LET S1 == [Cur EXCEPT !.ps.shouldStop = TRUE, !.ps.shouldPause = FALSE]
           S2 == IF S1.ps.timeoutId # NoTimer
                 THEN [ClearTimeout(S1, S1.ps.timeoutId) EXCEPT !.ps.timeoutId = NoTimer]
                 ELSE S1
           S3 == _notifyListeners(S2, "playbackStopped", S2.ps.currentStepIndex,
                                  S2.ps.currentMacro)
           S  == IF S3.w.run \in Runs /\ Active(S3.w.run)
                 THEN [S3 EXCEPT !.w.stopReq = TRUE,
                                 !.w.stopInPause = @ \/ run[S3.w.run].pc = "pause"]
                 ELSE S3
       IN  Commit(S, TRUE)

SetPlaybackSpeed(s) ==
  IF s <= 0
  THEN Commit(Cur, FALSE)
  ELSE LET S1 == [Cur EXCEPT !.ps.playbackSpeed = ClampSpeed(s)]
           S  == IF S1.ps.isPlaying
                 THEN _notifyListeners(S1, "speedChanged", NoIndex, S1.ps.currentMacro)
                 ELSE S1
       IN  Commit(S, TRUE)

\* No playMacro call is in progress.
Quiet == \A q \in Runs : run[q].pc \in {"idle", "done"}

\* The caller starts a playback only after the previous call has returned;
\* every other call may arrive at any time.
Next ==
  \/ \E r \in Runs, m \in MacroIds, o \in Options, obs \in BOOLEAN :
        Quiet /\ PlayMacro(r, m, o, obs)
  \/ \E m \in MacroIds : PlayMacroRejected(m)
  \/ \E r \in Runs, m \in MacroIds : Quiet /\ PlayMacroById(r, m, NoOptions)
  \/ \E r \in Runs, obs \in BOOLEAN : LoadDone(r, obs)
  \/ \E r \in Runs, ok \in BOOLEAN : StepDone(r, ok)
  \/ \E r \in Runs : TimerFires(r)
  \/ \E r \in Runs : AfterSleep(r)
  \/ PausePlayback
  \/ ResumePlayback
  \/ StopPlayback
  \/ \E s \in SpeedInputs : SetPlaybackSpeed(s)

Spec == Init /\ [][Next]_vars

\* playMacro calls arriving at any time, also while a call is in progress.
OverlapNext ==
  \/ \E r \in Runs, m \in MacroIds : PlayMacro(r, m, NoOptions, r = 1)
  \/ \E m \in MacroIds : PlayMacroRejected(m)
  \/ \E r \in Runs, m \in MacroIds : PlayMacroById(r, m, NoOptions)
  \/ \E r \in Runs : LoadDone(r, FALSE)
  \/ \E r \in Runs, ok \in BOOLEAN : StepDone(r, ok)
  \/ \E r \in Runs : TimerFires(r)
  \/ \E r \in Runs : AfterSleep(r)
  \/ PausePlayback
  \/ ResumePlayback
  \/ StopPlayback

OverlapSpec == Init /\ [][OverlapNext]_vars

\* The awaited promises settle: a pending timer fires, an input action
\* completes or fails, the macro lookup resolves.
Progress(r) ==
  \/ \E obs \in BOOLEAN : LoadDone(r, obs)
  \/ \E ok \in BOOLEAN : StepDone(r, ok)
  \/ TimerFires(r)
  \/ AfterSleep(r)

FairSpec == Spec /\ \A r \in Runs : WF_vars(Progress(r))

\* Values of options.speed the callers of playMacro may pass, in hundredths:
\* absent, 0.1, 2.0 and 10.0.
AnySpeeds == {0, 10, 200, 1000}

\* Playbacks started with any speed option, and every call that touches the
\* speed or the flags while they run.
SpeedNext ==
  \/ \E r \in Runs, m \in MacroIds, v \in AnySpeeds :
        Quiet /\ PlayMacro(r, m, [NoOptions EXCEPT !.speed = v], TRUE)
  \/ \E r \in Runs, ok \in BOOLEAN : StepDone(r, ok)
  \/ \E r \in Runs : TimerFires(r)
  \/ \E r \in Runs : AfterSleep(r)
  \/ PausePlayback
  \/ ResumePlayback
  \/ StopPlayback
  \/ \E s \in SpeedInputs : SetPlaybackSpeed(s)

SpeedSpec == Init /\ [][SpeedNext]_vars

TypeOK ==
  /\ playbackState.isPlaying \in BOOLEAN
  /\ playbackState.playbackSpeed \in 1..1000
  /\ \A r \in Runs : run[r].pc \in {"idle", "loading", "step", "delay", "pause", "done"}

---------------------------------------------------------------------------
(* The recorder: operations                                                *)

\* initialize(options): stores the dependencies and loads the macros.
Initialize(hooks, readOk) ==
  /\ ~dependencies.ready
  /\ dependencies' = [ready |-> TRUE, required |-> TRUE, hooks |-> hooks]
  /\ macros' = IF readOk THEN disk ELSE << >>
  /\ recReturn' = "ok"
  /\ UNCHANGED << recordingState, disk, targets, hostHandlers, setup, clock, session >>
  /\ UNCHANGED << playerVars, registryVars >>

\* initialize(options) with options that lack the click simulator or the
\* keyboard handler.
InitializeWithout(readOk) ==
  /\ ~dependencies.ready
  /\ dependencies' = [ready |-> TRUE, required |-> FALSE, hooks |-> {}]
  /\ macros' = IF readOk THEN disk ELSE << >>
  /\ recReturn' = "ok"
  /\ UNCHANGED << recordingState, disk, targets, hostHandlers, setup, clock, session >>
  /\ UNCHANGED << playerVars, registryVars >>

\* startRecording(options) with a required dependency missing: the state is
\* set, _setupRecordingEventHandlers throws before its first await and the
\* catch of startRecording rethrows.
StartRecordingFailed(o) ==
  /\ dependencies.ready
  /\ ~dependencies.required
  /\ ~recordingState.isRecording
  /\ setup = 0
  /\ session.id < MaxSessions
  /\ LET n     == session.id + 1
         k     == IF o.existingId = "none" THEN 0 ELSE FindIndex(macros, o.existingId)
         macro == IF k = 0 THEN createMacro(NewId(n), "new")
                  ELSE [macros[k] EXCEPT !.name = "new",
                                         !.steps = IF o.clearSteps THEN << >> ELSE @]
         R0    == [RecCur EXCEPT !.rs.shared = (k # 0)]
         R1    == SetCurrent(R0, macro)
         R     == [R1 EXCEPT !.rs.isRecording = TRUE, !.rs.lastActionTime = clock,
                             !.rs.eventListeners = {}, !.rs.targetIds = {}]
     IN  /\ RecCommit(R, "throw")
         /\ session' = [NoSession EXCEPT !.id = n, !.before = macros, !.fresh = (k = 0),
                                         !.live = TRUE]
  /\ UNCHANGED << disk, targets, dependencies, hostHandlers, setup, clock >>

\* startRecording(options), accepted: up to the await of getAllTargets.
StartRecording(o) ==
  /\ dependencies.ready
  /\ dependencies.required
  /\ ~recordingState.isRecording
  /\ setup = 0
  /\ session.id < MaxSessions
  /\ LET n     == session.id + 1
         k     == IF o.existingId = "none" THEN 0 ELSE FindIndex(macros, o.existingId)
         macro == IF k = 0 THEN createMacro(NewId(n), "new")
                  ELSE [macros[k] EXCEPT !.name = "new",
                                         !.steps = IF o.clearSteps THEN << >> ELSE @]
         R0    == [RecCur EXCEPT !.rs.shared = (k # 0)]
         R1    == SetCurrent(R0, macro)
         R     == [R1 EXCEPT !.rs.isRecording = TRUE, !.rs.lastActionTime = clock,
                             !.rs.eventListeners = {}, !.rs.targetIds = {}]
     IN  /\ RecCommit(R, "pending")
         /\ setup' = n
         /\ session' = [NoSession EXCEPT !.id = n, !.before = macros, !.fresh = (k = 0),
                                         !.live = TRUE]
  /\ UNCHANGED << disk, targets, dependencies, hostHandlers, clock >>

\* The session state renewed before the guard is reached.
StartRecordingRejected_Renewed ==
  /\ recordingState.isRecording
  /\ RecCommit([RecCur EXCEPT !.rs.lastActionTime = clock, !.rs.eventListeners = {},
                              !.rs.targetIds = {}], "throw")
  /\ UNCHANGED << disk, targets, dependencies, hostHandlers, setup, clock, session >>

\* startRecording while recording: 'Already recording a macro'.
StartRecordingRejected ==
  /\ recordingState.isRecording
  /\ RecCommit(RecCur, "throw")
  /\ UNCHANGED << disk, targets, dependencies, hostHandlers, setup, clock, session >>

\* getAllTargets resolved: the lookup is filled and the handlers registered.
SetupDone ==
  /\ setup # 0
  /\ LET hs == { << setup, f >> : f \in dependencies.hooks }
         R  == [RecCur EXCEPT !.rs.targetIds =
                                 @ \cup { [x |-> t.x, y |-> t.y, screenId |-> t.screenId,
                                           id |-> t.id] : t \in targets },
                              !.rs.eventListeners = @ \cup hs]
     IN  /\ RecCommit(R, "ok")
         /\ hostHandlers' = hostHandlers \cup hs
  /\ setup' = 0
  /\ UNCHANGED << disk, targets, dependencies, clock, session >>

\* The feeds in the order _setupRecordingEventHandlers subscribes to them.
FeedOrder == << "click", "key", "text" >>

\* getAllTargets resolved and the subscription to the j-th feed raises: the
\* handlers of the feeds before it stay registered, _setupRecordingEventHandlers
\* and startRecording rethrow.
SetupFailed(j) ==
  /\ setup # 0
  /\ FeedOrder[j] \in dependencies.hooks
  /\ LET hs == { << setup, FeedOrder[i] >> : i \in { i \in 1..(j - 1) :
                                                      FeedOrder[i] \in dependencies.hooks } }
         R  == [RecCur EXCEPT !.rs.targetIds =
                                 @ \cup { [x |-> t.x, y |-> t.y, screenId |-> t.screenId,
                                           id |-> t.id] : t \in targets },
                              !.rs.eventListeners = @ \cup hs]
     IN  /\ RecCommit(R, "throw")
         /\ hostHandlers' = hostHandlers \cup hs
  /\ setup' = 0
  /\ UNCHANGED << disk, targets, dependencies, clock, session >>

\* A feed delivers an input event to the handlers registered with it.
Deliver(ev) ==
  /\ HandlersOf(ev.feed) # {}
  /\ LET R == HandleAll(RecCur, ev, clock, Cardinality(HandlersOf(ev.feed)))
     IN  /\ Len(R.rs.currentMacro.steps) <= MaxSteps
         /\ RecCommit(R, "none")
         /\ session' = [session EXCEPT !.events = IF R.n > 0 THEN 1 ELSE @]
  /\ UNCHANGED << disk, targets, dependencies, hostHandlers, setup, clock >>

\* addActionToRecording(action) with a text action.
AddActionToRecording ==
  /\ Len(recordingState.currentMacro.steps) < MaxSteps
  /\ IF ~recordingState.isRecording \/ recordingState.currentMacro = NoMacro
     THEN RecCommit(RecCur, "false") /\ UNCHANGED session
     ELSE LET R1 == _addStepToMacro(RecCur, createTextInputAction)
              R  == [R1 EXCEPT !.rs.lastActionTime = clock]
          IN  /\ RecCommit(R, "true")
              /\ session' = [session EXCEPT !.events = 1]
  /\ UNCHANGED << disk, targets, dependencies, hostHandlers, setup, clock >>

\* stopRecording closing the macro with the delay since the last action.
StopRecording_TrailingDelay(writeOk) ==
  IF ~recordingState.isRecording \/ recordingState.currentMacro = NoMacro
  THEN /\ RecCommit([RecCur EXCEPT !.rs.isRecording = FALSE, !.rs.eventListeners = {}], "throw")
       /\ hostHandlers' = RemoveListeners(hostHandlers, RecCur)
       /\ UNCHANGED << disk, targets, dependencies, setup, clock, session >>
  ELSE LET R0    == _addDelayIfNeeded(RecCur, clock)
           macro == R0.rs.currentMacro
           R     == [R0 EXCEPT !.rs.isRecording = FALSE, !.rs.eventListeners = {},
                               !.rs.targetIds = {}, !.rs.shared = TRUE,
                               !.ms = PutMacro(@, macro)]
       IN  /\ RecCommit(R, "ok")
           /\ hostHandlers' = RemoveListeners(hostHandlers, RecCur)
           /\ disk' = saveMacros(R.ms, writeOk)
           /\ session' = [session EXCEPT !.live = FALSE, !.ended = clock]
           /\ UNCHANGED << targets, dependencies, setup, clock >>

\* stopRecording(); writeOk is whether the write of the storage file succeeds.
StopRecording(writeOk) ==
  IF ~recordingState.isRecording \/ recordingState.currentMacro = NoMacro
  THEN /\ RecCommit([RecCur EXCEPT !.rs.isRecording = FALSE, !.rs.eventListeners = {}], "throw")
       /\ hostHandlers' = RemoveListeners(hostHandlers, RecCur)
       /\ UNCHANGED << disk, targets, dependencies, setup, clock, session >>
  ELSE LET macro == recordingState.currentMacro
           R     == [RecCur EXCEPT !.rs.isRecording = FALSE, !.rs.eventListeners = {},
                                   !.rs.targetIds = {}, !.rs.currentMacro = macro,
                                   !.rs.shared = TRUE, !.ms = PutMacro(@, macro)]
       IN  /\ RecCommit(R, "ok")
           /\ hostHandlers' = RemoveListeners(hostHandlers, RecCur)
           /\ disk' = saveMacros(R.ms, writeOk)
           /\ session' = [session EXCEPT !.live = FALSE, !.ended = clock]
           /\ UNCHANGED << targets, dependencies, setup, clock >>

\* cancelRecording()
CancelRecording ==
  IF ~recordingState.isRecording
  THEN /\ RecCommit(RecCur, "true")
       /\ UNCHANGED << disk, targets, dependencies, hostHandlers, setup, clock, session >>
  ELSE LET R == [RecCur EXCEPT !.rs.isRecording = FALSE, !.rs.eventListeners = {},
                               !.rs.targetIds = {}, !.rs.currentMacro = NoMacro,
                               !.rs.shared = FALSE]
       IN  /\ RecCommit(R, "true")
           /\ hostHandlers' = RemoveListeners(hostHandlers, RecCur)
           /\ session' = [session EXCEPT !.live = FALSE, !.ended = clock]
           /\ UNCHANGED << disk, targets, dependencies, setup, clock >>

\* saveMacro(macroData): the object replaces the stored one with its id.
SaveMacro(macroData, writeOk) ==
  /\ dependencies.ready
  /\ LET m == macroData
         R == [RecCur EXCEPT !.ms = PutMacro(@, m),
                             !.rs.shared = @ /\ recordingState.currentMacro.id # m.id]
     IN  /\ RecCommit(R, "ok")
         /\ disk' = saveMacros(R.ms, writeOk)
  /\ session' = [session EXCEPT !.disturbed = TRUE]
  /\ UNCHANGED << targets, dependencies, hostHandlers, setup, clock >>

\* Time passes.
Tick(g) ==
  /\ clock + g <= MaxClock
  /\ clock' = clock + g
  /\ UNCHANGED << recordingState, macros, disk, targets, dependencies, hostHandlers, setup,
                  session, recReturn >>
  /\ UNCHANGED << playerVars, registryVars >>

\* The target manager creates the target t1 or moves it.
PlaceTarget(spot) ==
  /\ targets' = { spot }
  /\ targets # { spot }
  /\ UNCHANGED << recordingState, macros, disk, dependencies, hostHandlers, setup, clock,
                  session, recReturn >>
  /\ UNCHANGED << playerVars, registryVars >>

\* The recorder's calls in any order, stopRecording with the write of the
\* storage file failing or not; the key feed is the one feed that delivers
\* events; a stored macro without steps is handed to playMacro.
RecNext ==
  \/ \E h \in {{}, Feeds} : Initialize(h, TRUE)
  \/ \E o \in StartOptions : StartRecording(o)
  \/ StartRecordingRejected
  \/ SetupDone
  \/ \E ev \in { e \in InputEvents : e.feed = "key" } : Deliver(ev)
  \/ \E writeOk \in BOOLEAN : StopRecording(writeOk)
  \/ CancelRecording
  \/ \E d \in SaveInputs : SaveMacro(d, TRUE)
  \/ \E k \in 1..Len(macros) : macros[k].steps = << >> /\ PlayMacroRejected("m0")

RecSpec == Init /\ [][RecNext]_vars

\* Capture: the three feeds, the clock and the targets during one session
\* whose macro is written to a storage file that does not fail.
CaptureNext ==
  \/ Initialize(Feeds, TRUE)
  \/ \E o \in StartOptions : session.id = 0 /\ StartRecording(o)
  \/ SetupDone
  \/ \E ev \in InputEvents : Deliver(ev)
  \/ AddActionToRecording
  \/ StopRecording(TRUE)
  \/ CancelRecording
  \/ \E g \in Gaps : Tick(g)
  \/ \E spot \in TargetSpots : PlaceTarget(spot)

CaptureSpec == Init /\ [][CaptureNext]_vars

\* Recording again into stored macros: the macro of the storage file and a
\* macro given to saveMacro whose step orders leave a gap.
OrderNext ==
  \/ Initialize(Feeds, TRUE)
  \/ SaveMacro(GapMacro, TRUE)
  \/ \E o \in StartOptions : StartRecording(o)
  \/ \E c \in BOOLEAN : StartRecording([existingId |-> GapMacro.id, clearSteps |-> c])
  \/ SetupDone
  \/ \E ev \in { e \in InputEvents : e.feed = "key" } : Deliver(ev)
  \/ AddActionToRecording
  \/ StopRecording(TRUE)

OrderSpec == Init /\ [][OrderNext]_vars

\* The target manager's calls in any order and the player's click steps
\* while the display layout changes, the targets file written without failure.
RegistryNext ==
  \/ InitializeTargets("ok")
  \/ \E p \in GlobalPoints, kind \in ClickKinds : CreateTarget(p, kind, TRUE)
  \/ \E id \in TargetIds, p \in GlobalPoints : UpdateTarget(id, p, TRUE)
  \/ \E id \in TargetIds : DeleteTarget(id, TRUE)
  \/ \E id \in TargetIds, simOk \in BOOLEAN : TestTarget(id, simOk)
  \/ \E action \in ClickActions : ExecuteClickAction(action)
  \/ \E l \in Layouts : ChangeLayout(l)

RegistrySpec == Init /\ [][RegistryNext]_vars

\* The player's click steps with either target manager and with
\* simulateClick calls that raise, while targets are created and deleted and
\* the display layout changes.
ClickStepNext ==
  \/ InitializeTargets("ok")
  \/ \E p \in GlobalPoints, kind \in ClickKinds : CreateTarget(p, kind, TRUE)
  \/ \E id \in TargetIds : DeleteTarget(id, TRUE)
  \/ \E action \in ClickActions, methods \in PlayerTargetManagers, fails \in ClickFaults :
       ExecuteClickActionWith(action, methods, fails)
  \/ SimReturned
  \/ \E l \in Layouts : ChangeLayout(l)

ClickStepSpec == Init /\ [][ClickStepNext]_vars

\* The calls that add targets, with generated and with caller-supplied ids,
\* and clearAllTargets, while the display layout changes.  Two targets of one
\* id are two members of the collection as long as they differ in a field.
SuppliedIdNext ==
  \/ InitializeTargets("ok")
  \/ \E p \in GlobalPoints, kind \in ClickKinds : CreateTarget(p, kind, TRUE)
  \/ \E id \in TargetIds, p \in GlobalPoints, kind \in ClickKinds :
       CreateTargetWithId(id, p, kind, TRUE)
  \/ ClearAllTargets(TRUE)
  \/ \E l \in Layouts : ChangeLayout(l)

SuppliedIdSpec == Init /\ [][SuppliedIdNext]_vars

\* The target manager's calls with the storage file failing: reads at load
\* time that fail, writes that fail; one display layout.
\* The points and the kind of click the targets written to the store are
\* made of.
StorePoints == { << 500, 500 >>, << 19700, 500 >> }
StoreKinds == { kind \in ClickKinds : kind.clickType = "left" }

StoreNext ==
  \/ \E read \in ReadOutcomes : InitializeTargets(read)
  \/ \E read \in ReadOutcomes : LoadTargets(read)
  \/ \E p \in StorePoints, kind \in StoreKinds, w \in BOOLEAN : CreateTarget(p, kind, w)
  \/ \E id \in TargetIds, p \in StorePoints, w \in BOOLEAN : UpdateTarget(id, p, w)
  \/ \E id \in TargetIds, w \in BOOLEAN : DeleteTarget(id, w)
  \/ \E w \in BOOLEAN : ClearAllTargets(w)
  \/ \E readOk \in BOOLEAN : Initialize(Feeds, readOk)
  \/ \E w \in BOOLEAN : SaveMacro(GapMacro, w)

StoreSpec == Init /\ [][StoreNext]_vars

\* Recordings whose start fails: a required module missing, or the
\* subscription to a feed raising.
SetupNext ==
  \/ Initialize(Feeds, TRUE)
  \/ InitializeWithout(TRUE)
  \/ \E o \in StartOptions : StartRecording(o)
  \/ \E o \in StartOptions : StartRecordingFailed(o)
  \/ StartRecordingRejected
  \/ SetupDone
  \/ \E j \in 1..Len(FeedOrder) : SetupFailed(j)
  \/ \E ev \in { e \in InputEvents : e.feed \in { "click", "key" } } : Deliver(ev)
  \/ StopRecording(TRUE)
  \/ CancelRecording

SetupSpec == Init /\ [][SetupNext]_vars

\* The simulators' operations one after the other, any of their host calls
\* raising.
SimNext ==
  \/ \E button \in Buttons, faults \in FaultSets : SimulateDrag(button, faults)
  \/ \E held \in ModifierSets, faults \in FaultSets : SimulateKeystroke(held, faults)
  \/ \E clickType \in Buttons \cup {"double"}, clickCount \in 1..MaxClicks,
        faults \in FaultSets : SimulateClick(clickType, clickCount, faults)
  \/ SimReturned

SimSpec == Init /\ [][SimNext]_vars

---------------------------------------------------------------------------
(* Properties                                                              *)

WatchedLive == IF watch.run = 0 THEN FALSE ELSE Active(watch.run)
WatchedDone == IF watch.run = 0 THEN FALSE ELSE run[watch.run].pc = "done"
Idle == ~playbackState.isPlaying /\ ~playbackState.shouldStop /\ ~playbackState.shouldPause

Orders(m) == { MacroLib[m][k].order : k \in 1..Len(MacroLib[m]) }
\* The k-th smallest order of macro m.
KthOrder(m, k) ==
  CHOOSE o \in Orders(m) : Cardinality({ p \in Orders(m) : p < o }) = k - 1
Emitted(e) == \E k \in 1..Len(emitted) : emitted[k].event = e

\* C1: at most one playback run is executing at any time, however playMacro
\* calls overlap.
C1_AtMostOneRun == Cardinality({ r \in Runs : Active(r) }) <= 1

\* C2: the steps a run starts follow ascending `order` within every
\* iteration, whatever order they are stored in; a run that returns after a
\* single iteration with no failed step and no stop returns success with
\* stepsExecuted = N, having started each of the N steps exactly once.
C2_AscendingOrder ==
  LET n == Len(MacroLib[watch.macro]) IN
  watch.run # 0 =>
    /\ \A p \in 1..Len(watch.started) :
         watch.started[p] = KthOrder(watch.macro, ((p - 1) % n) + 1)
    /\ (watch.result.kind # "none" /\ ~watch.failed /\ ~watch.stopReq
          /\ watch.result.iterations = 1)
       => /\ watch.result.success
          /\ watch.result.stepsExecuted = n
          /\ Len(watch.started) = n

\* A run of the out-of-order macro m1 has returned success after one iteration.
C2_Witness ==
  /\ watch.run # 0 /\ watch.macro = "m1"
  /\ watch.result.success /\ watch.result.iterations = 1
  /\ ~watch.failed /\ ~watch.stopReq
  /\ watch.started = << 1, 2, 3 >>

\* C3: once stopPlayback is accepted during an active run, the run
\* eventually unwinds: playMacro returns and the flags are idle again.
C3_StopUnwinds == (WatchedLive /\ watch.stopReq) ~> (WatchedDone /\ Idle)

\* C4: the step index reported when playback is resumed equals the one
\* reported when it was paused.
C4_ResumeSameIndex ==
  \A k \in 1..Len(emitted) :
    emitted[k].event = "playbackResumed" => emitted[k].stepIndex = pausedAt

\* C5: stopPlayback issued while the run waits in the pause loop emits exactly
\* one `stopped` notification and no `paused` or `resumed` one; after it the
\* run starts no further step and ends as stopped.
C5_StopWhilePaused ==
  [][ /\ (playbackState.isPlaying /\ StopPlayback)
         => emitted' = << Event("playbackStopped", playbackState.currentStepIndex,
                                playbackState.currentMacro) >>
      /\ (watch.stopInPause /\ WatchedLive)
         => /\ watch'.started = watch.started
            /\ WatchedDone' => watch'.result.stopped ]_vars

\* C6: a Click, Keyboard or Text step in flight when a stop or pause is
\* requested completes and is counted; once a stop was accepted during the
\* run, the run starts no step that had not already started.
C6_Cooperative ==
  [][ /\ \A r \in Runs :
           (run[r].pc = "step" /\ StepDone(r, TRUE) /\ Watched(Cur, r))
             => /\ Emitted("stepComplete")'
                /\ \/ run'[r].stepsExecuted = run[r].stepsExecuted + 1
                   \/ watch'.result.stepsExecuted = run[r].stepsExecuted + 1
      /\ (watch.stopReq /\ WatchedLive) => watch'.started = watch.started ]_vars

\* C7: a run with no failed step and no stop performs exactly repeatCount
\* iterations (stepsExecuted = N * repeatCount), for every combination of the
\* repeat and repeatCount options.
C7_IterationsEqualRepeatCount ==
  LET n == Len(MacroLib[watch.macro])
      c == OrDefault(watch.opts.repeatCount, 1) IN
  (watch.run # 0 /\ watch.result.kind # "none" /\ ~watch.failed /\ ~watch.stopReq)
    => /\ watch.result.iterations = c
       /\ watch.result.stepsExecuted = n * c

\* C8: when a step fails, a run started with suppressErrors = false ends at
\* that step with an error result; a run started with suppressErrors = true
\* gets a stepError notification, does not count the step and does not end
\* with an error result.
C8_FailureHandling ==
  [][ \A r \in Runs :
        (StepDone(r, FALSE) /\ Watched(Cur, r))
          => /\ Emitted("stepError")'
             /\ IF watch.opts.suppressErrors
                THEN /\ watch'.result.kind # "error"
                     /\ \/ run'[r].stepsExecuted = run[r].stepsExecuted
                        \/ watch'.result.stepsExecuted = run[r].stepsExecuted
                ELSE /\ WatchedDone'
                     /\ watch'.result.kind = "error"
                     /\ watch'.started = watch.started ]_vars

Abs(a) == IF a < 0 THEN -a ELSE a
StartsDelay(r) ==
  /\ run'[r].pc = "delay" /\ run'[r].armed
  /\ ~(run[r].pc = "delay" /\ run[r].i = run'[r].i /\ run[r].iterations = run'[r].iterations)

\* C10: a Delay step arms its timer with round(durationMs / speed) for the
\* speed in force when the step starts (Delay(500) at 2.0 waits 250); while
\* the delay is waiting no call changes it; a click or text step calls the
\* simulator with the step's own arguments, whatever the speed.
C10_DelayUsesSpeedAtStart ==
  [][ \A r \in Runs :
        /\ StartsDelay(r)
           => LET v == playbackState'.playbackSpeed
                  d == Steps(run'[r])[run'[r].i + 1].duration IN
              /\ 2 * Abs(run'[r].call.ms * v - d * 100) <= v
              /\ (v = 200 /\ d = 500) => run'[r].call.ms = 250
        /\ (run[r].pc = "delay" /\ run'[r].pc = "delay" /\ run[r].i = run'[r].i
              /\ run[r].iterations = run'[r].iterations)
           => run'[r].call = run[r].call
        /\ run'[r].pc = "step"
           => LET st == Steps(run'[r])[run'[r].i + 1] IN
              /\ st.type = "click" =>
                   run'[r].call = [fn |-> "simulateClick", x |-> st.x, y |-> st.y, ms |-> 0]
              /\ st.type = "text" =>
                   run'[r].call = [fn |-> "simulateTyping", x |-> 0, y |-> 0, ms |-> 0]
    ]_vars

\* A delay armed at speed 2.0 is still waiting 250 ms after the speed changed.
C10_Witness ==
  \E r \in Runs :
    /\ run[r].pc = "delay" /\ run[r].armed
    /\ run[r].call.ms = 250
    /\ playbackState.playbackSpeed = 400

\* C11: pausePlayback and resumePlayback called while no session is active
\* change no playback state, send no notification and return false;
\* pausePlayback while already paused and resumePlayback while not paused
\* change no state and send no notification.
C11_NoOpPauseResume ==
  [][ /\ (PausePlayback /\ (~playbackState.isPlaying \/ playbackState.shouldPause))
         => /\ playbackState' = playbackState /\ run' = run
            /\ emitted' = << >>
            /\ ret' = playbackState.isPlaying
      /\ (ResumePlayback /\ (~playbackState.isPlaying \/ ~playbackState.shouldPause))
         => /\ playbackState' = playbackState /\ run' = run
            /\ emitted' = << >>
            /\ ret' = playbackState.isPlaying ]_vars

\* pausePlayback has just been called on a session that was already paused.
C11_Witness ==
  /\ playbackState.isPlaying /\ playbackState.shouldPause
  /\ emitted = << >> /\ ret

\* Where a call stands in its sequence of notifications: before `start`,
\* running (with the index of the step that has started and not ended, and
\* the index the next step start must carry), or after `complete`.
Stage(f) ==
  [ phase |-> IF f.pc \in {"idle", "loading"} THEN "before"
              ELSE IF f.pc = "done" THEN "after" ELSE "running",
    open  |-> IF f.pc \in {"step", "delay"} THEN f.i ELSE NoIndex,
    next  |-> IF f.pc \in {"step", "delay", "pause"} THEN f.i ELSE 0,
    ok    |-> TRUE ]

\* One notification read against the order claimed for a macro of n steps.
Read(q, ev, n) ==
  LET bad == [q EXCEPT !.ok = FALSE] IN
  IF ~q.ok THEN q
  ELSE IF ev.event = "playbackStart"
    THEN IF q.phase = "before" THEN [q EXCEPT !.phase = "running", !.next = 0] ELSE bad
  ELSE IF q.phase # "running" THEN bad
  ELSE IF ev.event = "stepStart"
    THEN IF q.open = NoIndex /\ ev.stepIndex = q.next /\ ev.stepIndex < n
         THEN [q EXCEPT !.open = ev.stepIndex] ELSE bad
  ELSE IF ev.event \in {"stepComplete", "stepError"}
    THEN IF q.open = ev.stepIndex /\ q.open # NoIndex
         THEN [q EXCEPT !.open = NoIndex, !.next = ev.stepIndex + 1] ELSE bad
  ELSE IF ev.event = "iterationComplete"
    THEN IF q.open = NoIndex /\ q.next = n THEN [q EXCEPT !.next = 0] ELSE bad
  ELSE IF ev.event = "playbackComplete"
    THEN IF q.open = NoIndex THEN [q EXCEPT !.phase = "after"] ELSE bad
  ELSE q

RECURSIVE ReadAll(_, _, _)
ReadAll(q, evs, n) ==
  IF evs = << >> THEN q ELSE ReadAll(Read(q, Head(evs), n), Tail(evs), n)

\* C12: the notifications of a run are ordered: `start` comes before every
\* other one; a step start for i is followed by exactly one step complete or
\* step error for i before any notification of another step; steps start in
\* index order; iteration-complete follows the end of the last step of the
\* iteration; nothing follows `complete`.
C12_OrderedNotifications ==
  [][ watch'.run # 0 =>
        LET r == watch'.run
            n == Len(MacroLib[watch'.macro])
            q == ReadAll(Stage(run[r]), emitted', n) IN
        /\ q.ok
        /\ q.phase = Stage(run'[r]).phase
        /\ q.open = Stage(run'[r]).open
        /\ run'[r].pc = "pause" => q.next = run'[r].i ]_vars

\* A run of m1 has just returned after two full iterations.
C12_Witness ==
  /\ watch.run # 0 /\ watch.macro = "m1"
  /\ watch.result.success /\ watch.result.iterations = 2
  /\ Len(emitted) > 0 /\ emitted[Len(emitted)].event = "playbackComplete"

\* C13: a macro with zero steps can be stored (saveMacro and stopRecording
\* accept it and hold it in the collection) but cannot be played: playMacro on
\* it is rejected without entering Playing, without starting a step and
\* without a `start` notification.
C13_EmptyStoredNotPlayed ==
  [][ /\ \A d \in SaveInputs :
           (d.steps = << >> /\ SaveMacro(d, TRUE))
             => recReturn' = "ok" /\ \E k \in 1..Len(macros') : macros'[k] = d
      /\ (recordingState.isRecording /\ recordingState.currentMacro.steps = << >>
            /\ recordingState.currentMacro # NoMacro /\ \E w \in BOOLEAN : StopRecording(w))
         => /\ recReturn' = "ok"
            /\ \E k \in 1..Len(macros') : macros'[k] = recordingState.currentMacro
      /\ PlayMacroRejected("m0")
         => /\ ~playbackState'.isPlaying /\ ~ret'
            /\ emitted' = << >>
            /\ \A r \in Runs : Active(r)' => Active(r) ]_vars

\* A recording stopped without steps is in the collection and playMacro has
\* just refused a macro.
C13_Witness ==
  /\ \E k \in 1..Len(macros) : macros[k].id = "r1" /\ macros[k].steps = << >>
  /\ ~ret /\ ~playbackState.isPlaying

\* C14: startRecording called while Recording is rejected and leaves the
\* active session as it was: same current macro with the same steps, same
\* lookup table, same subscriptions, still Recording; no call starts a second
\* session while one is active.
C14_OneRecordingSession ==
  [][ /\ (recordingState.isRecording
            /\ (StartRecordingRejected \/ \E o \in StartOptions : StartRecording(o)))
         => /\ recReturn' = "throw"
            /\ recordingState' = recordingState
            /\ macros' = macros /\ disk' = disk
            /\ hostHandlers' = hostHandlers /\ setup' = setup
      /\ session'.id # session.id => ~recordingState.isRecording ]_vars

\* startRecording has just been refused during a session that has recorded a
\* step and holds its subscriptions.
C14_Witness ==
  /\ recordingState.isRecording /\ recReturn = "throw"
  /\ Len(recordingState.currentMacro.steps) > 0
  /\ recordingState.eventListeners # {}

\* The action type a feed's handler records.
RecordedType(ev) ==
  IF ev.feed = "click" THEN "click" ELSE IF ev.feed = "key" THEN "keyboard" ELSE "text"

\* C15: for every event recorded during a session, with elapsed the time
\* since the previously recorded action (since startRecording for the first
\* event): when elapsed > 500 ms exactly one Delay{elapsed} step is appended
\* immediately before the event's step, and when elapsed <= 500 ms the
\* event's step is appended alone (600 gives a Delay of 600; 300 and exactly
\* 500 give none).
C15_DelayAboveThreshold ==
  [][ \A ev \in InputEvents :
        LET old     == recordingState.currentMacro.steps
            new     == recordingState'.currentMacro.steps
            elapsed == clock - recordingState.lastActionTime
            added   == Len(new) - Len(old)
        IN  (Deliver(ev) /\ added > 0) =>
              /\ SubSeq(new, 1, Len(old)) = old
              /\ new[Len(new)].action.type = RecordedType(ev)
              /\ IF elapsed > 500
                 THEN /\ added = 2
                      /\ new[Len(old) + 1].action.type = "delay"
                      /\ new[Len(old) + 1].action.duration = elapsed
                 ELSE added = 1 ]_vars

\* A session holds a Delay of 600 ms immediately before a recorded click and
\* two events recorded next to each other with no Delay between them.
C15_Witness ==
  LET steps == recordingState.currentMacro.steps
  IN  /\ recordingState.isRecording
      /\ \E k \in 1..(Len(steps) - 1) :
           /\ steps[k].action.type = "delay" /\ steps[k].action.duration = 600
           /\ steps[k + 1].action.type = "click"
      /\ \E k \in 1..(Len(steps) - 1) :
           steps[k].action.type # "delay" /\ steps[k + 1].action.type # "delay"

\* C16: a click recorded at (x, y) on display d gets targetId = t exactly when
\* the lookup table taken at the start of the session holds a target t at
\* (x, y, d), for every display d; targets created or moved afterwards play
\* no part, the table being the one the session took.
C16_TargetOnClickedDisplay ==
  [][ \A ev \in ClickEvents :
        LET old  == recordingState.currentMacro.steps
            new  == recordingState'.currentMacro.steps
            hits == { e \in recordingState.targetIds :
                        e.x = ev.x /\ e.y = ev.y /\ e.screenId = ev.display }
        IN  (Deliver(ev) /\ Len(new) > Len(old)) =>
              IF hits = {}
              THEN new[Len(new)].action.targetId = NoTarget
              ELSE new[Len(new)].action.targetId \in { e.id : e \in hits } ]_vars

\* C17: after stopRecording succeeds the recorder is idle, every feed the
\* session subscribed to has been unsubscribed, the returned macro is in the
\* collection exactly once, and the storage file holds that collection.
C17_StopFinalises ==
  [][ \A writeOk \in BOOLEAN :
        (StopRecording(writeOk) /\ recReturn' = "ok") =>
          LET macro == recordingState'.currentMacro
          IN  /\ ~recordingState'.isRecording
              /\ recordingState'.eventListeners = {}
              /\ hostHandlers' \cap recordingState.eventListeners = {}
              /\ Cardinality({ k \in 1..Len(macros') : macros'[k].id = macro.id }) = 1
              /\ \E k \in 1..Len(macros') : macros'[k] = macro
              /\ disk' = macros' ]_vars

\* The same with the storage file left out: what stopRecording does to the
\* recorder and to the collection in memory.
C17_StopFinalisesInMemory ==
  [][ \A writeOk \in BOOLEAN :
        (StopRecording(writeOk) /\ recReturn' = "ok") =>
          LET macro == recordingState'.currentMacro
          IN  /\ ~recordingState'.isRecording
              /\ recordingState'.eventListeners = {}
              /\ hostHandlers' \cap recordingState.eventListeners = {}
              /\ Cardinality({ k \in 1..Len(macros') : macros'[k].id = macro.id }) = 1
              /\ \E k \in 1..Len(macros') : macros'[k] = macro ]_vars

\* C18: cancelRecording discards the session: after startRecording, any
\* recorded events and cancelRecording, the macro collection is what it was
\* before startRecording, for a new macro and for a session continuing a
\* stored macro, its steps cleared or kept (no other call having changed the
\* collection in between).
C18_CancelDiscards ==
  [][ (CancelRecording /\ recordingState.isRecording /\ ~session.disturbed)
        => macros' = session.before ]_vars

\* The same for the sessions that record a new macro.
C18_CancelDiscardsNew ==
  [][ (CancelRecording /\ recordingState.isRecording /\ ~session.disturbed /\ session.fresh)
        => macros' = session.before ]_vars

\* C19: stopRecording on a session that records a new macro and captured no
\* event returns a macro with no steps, however long the session lasted:
\* stopping adds no Delay and no other step.
C19_EmptyRecordingStaysEmpty ==
  [][ \A writeOk \in BOOLEAN :
        (StopRecording(writeOk) /\ recordingState.isRecording
           /\ session.fresh /\ session.events = 0)
        => /\ recReturn' = "ok"
           /\ recordingState'.currentMacro.id = recordingState.currentMacro.id
           /\ recordingState'.currentMacro.steps = << >>
           /\ \A k \in 1..Len(macros') :
                macros'[k].id = recordingState.currentMacro.id => macros'[k].steps = << >> ]_vars

\* A new session without events was stopped more than 500 ms after it began.
C19_Witness ==
  /\ ~recordingState.isRecording /\ recordingState.currentMacro # NoMacro
  /\ session.id > 0 /\ ~session.live /\ session.fresh /\ session.events = 0
  /\ session.ended - recordingState.lastActionTime > DelayThreshold
  /\ recordingState.currentMacro.steps = << >>
  /\ FindIndex(macros, recordingState.currentMacro.id) # 0

DistinctOrders(m) ==
  \A i, j \in 1..Len(m.steps) : i # j => m.steps[i].order # m.steps[j].order

\* C21: the `order` values of the steps of each macro, stored or being
\* recorded, are pairwise distinct in every reachable state, the stored
\* macros having had distinct orders to begin with.
C21_DistinctOrders ==
  /\ DistinctOrders(recordingState.currentMacro)
  /\ \A k \in 1..Len(macros) : DistinctOrders(macros[k])

\* The same for the macros the recorder created itself.
C21_DistinctOrdersOfNew ==
  /\ recordingState.currentMacro.id \in { NewId(n) : n \in 1..MaxSessions }
       => DistinctOrders(recordingState.currentMacro)
  /\ \A k \in 1..Len(macros) :
       macros[k].id \in { NewId(n) : n \in 1..MaxSessions } => DistinctOrders(macros[k])

\* Display-relative points checked on every display: the corners of the
\* display and the point (50, 50).
LocalXs == {0, 50, 1919}
LocalYs == {0, 50, 1079}

\* The point c of display k, converted to global and back.
RoundTrip(c, screens) ==
  LET g == screenToGlobalCoordinates(c, screens)
  IN  globalToScreenCoordinates(10 * g.x, 10 * g.y, screens)

\* No two displays of the layout share a pixel.
DisjointDisplays(screens) ==
  \A i, j \in 1..Len(screens) :
    i # j => \/ screens[i].x + screens[i].width <= screens[j].x
             \/ screens[j].x + screens[j].width <= screens[i].x
             \/ screens[i].y + screens[i].height <= screens[j].y
             \/ screens[j].y + screens[j].height <= screens[i].y

\* C22: in every display layout, a display-relative point within the bounds
\* of its display is returned unchanged, display id included, by
\* screenToGlobalCoordinates followed by globalToScreenCoordinates.
C22_RoundTrip ==
  \A k \in 1..Len(displays), x \in LocalXs, y \in LocalYs :
    LET c == [x |-> x, y |-> y, screenId |-> displays[k].id]
    IN  RoundTrip(c, displays) = c

\* C22, amended: the same in the layouts whose displays do not overlap.
C22_RoundTripDisjoint ==
  DisjointDisplays(displays) =>
    \A k \in 1..Len(displays), x \in LocalXs, y \in LocalYs :
      LET c == [x |-> x, y |-> y, screenId |-> displays[k].id]
      IN  RoundTrip(c, displays) = c

\* A target created on the display left of the primary one, which is listed
\* first, has been tested: both conversions were applied at a negative origin.
C22_Witness ==
  /\ DisjointDisplays(displays) /\ Len(displays) = 2 /\ displays[1].x < 0
  /\ \E t \in targets : t.screenId = displays[1].id
  /\ clicks # << >>
  /\ clicks[1].x < 0

\* C23: testTarget(id) on an existing target issues exactly one simulated
\* click, at the target's coordinates plus the origin of the target's display
\* in the current layout, with the target's clickType and clickCount; for an
\* unknown id it fails and issues no click.
C23_TestClicksAtGlobal ==
  [][ \A id \in TargetIds, simOk \in BOOLEAN :
        TestTarget(id, simOk) =>
          IF \E t \in targets : t.id = id
          THEN \A t \in targets :
                 t.id = id =>
                   /\ Len(clicks') = 1
                   /\ clicks'[1].clickType = t.clickType
                   /\ clicks'[1].clickCount = t.clickCount
                   /\ \A k \in 1..Len(displays) :
                        (displays[k].id = t.screenId
                           /\ \A j \in 1..(k - 1) : displays[j].id # t.screenId)
                        => /\ clicks'[1].x = t.x + displays[k].x
                           /\ clicks'[1].y = t.y + displays[k].y
                   /\ tmReturn' = IF simOk THEN "true" ELSE "throw"
          ELSE clicks' = << >> /\ tmReturn' = "throw" ]_vars

\* The target at local (50, 50) of the display at origin (1920, 0) has been
\* tested: one double click at global (1970, 50).
C23_Witness ==
  /\ \E t \in targets : t.x = 50 /\ t.y = 50 /\ t.screenId = 2 /\ t.clickType = "double"
  /\ \E k \in 1..Len(displays) : displays[k].id = 2 /\ displays[k].x = 1920 /\ displays[k].y = 0
  /\ tmReturn = "true"
  /\ clicks = << ClickCall(1970, 50, "double", 3) >>

\* C24: during playback a Click step whose targetId names a target that
\* exists is clicked at that target's stored coordinates mapped through the
\* current layout; the step's literal x, y are used only when the step has
\* no targetId or the target does not exist.
C24_ClickResolvesTarget ==
  [][ \A action \in ClickActions :
        ExecuteClickAction(action) =>
          /\ Len(clicks') = 1
          /\ IF \E t \in targets : t.id = action.targetId
             THEN \A t \in targets, k \in 1..Len(displays) :
                    (t.id = action.targetId /\ displays[k].id = t.screenId
                       /\ \A j \in 1..(k - 1) : displays[j].id # t.screenId)
                    => /\ clicks'[1].x = t.x + displays[k].x
                       /\ clicks'[1].y = t.y + displays[k].y
             ELSE clicks'[1].x = action.x /\ clicks'[1].y = action.y ]_vars

\* The part of C24 about steps that resolve to nothing: a step without a
\* targetId, or naming a target that does not exist, is clicked at its
\* literal coordinates.
C24_LiteralWhenUnresolved ==
  [][ \A action \in ClickActions :
        (ExecuteClickAction(action) /\ ~\E t \in targets : t.id = action.targetId)
          => clicks' = << ClickCall(action.x, action.y, "left", 1) >> ]_vars

\* The host calls of the last operation that raised.
Raised(h) == { k \in 1..Len(h.log) : h.log[k].raised }

\* The calls of the last operation that took effect, in order.
Done(h) == SelectSeq(h.log, LAMBDA e : ~e.raised)

\* C25: whenever simulateDrag finishes, by returning or by raising, no mouse
\* button is left pressed, whichever of its host calls raise.
C25_DragReleasesButtons ==
  (host.op.name = "simulateDrag" /\ host.op.before = {}) => host.buttons = {}

\* The same for the drags in which at most one host call raises.
C25_DragReleasesAfterOneFailure ==
  (host.op.name = "simulateDrag" /\ host.op.before = {}
     /\ Cardinality(Raised(host)) <= 1)
    => host.buttons = {}

\* The modifiers are pressed in the order of the list, the key is tapped, and
\* the modifiers are released in the reverse order.
InOrder(h) ==
  LET downs == SelectSeq(Modifiers, LAMBDA m : m \in h.op.held)
      n     == Len(downs)
  IN  /\ Len(h.log) = 2 * n + 1
      /\ \A k \in 1..n :
           /\ h.log[k].call = KeyToggle(downs[k], "down")
           /\ h.log[2 * n + 2 - k].call = KeyToggle(downs[k], "up")
      /\ h.log[n + 1].call = KeyTap

\* C26: simulateKeystroke presses the requested modifiers in the order shift,
\* control, alt, meta, taps the key and releases the modifiers in the reverse
\* order; whenever it finishes, by returning or by raising at any host call,
\* no modifier key is left held down.
C26_KeystrokeReleasesModifiers ==
  (host.op.name = "simulateKeystroke" /\ host.op.before = {})
    => /\ host.mods = {}
       /\ simReturn = "ok" => InOrder(host)

\* The same for the keystrokes in which at most one host call raises.
C26_KeystrokeReleasesAfterOneFailure ==
  (host.op.name = "simulateKeystroke" /\ host.op.before = {}
     /\ Cardinality(Raised(host)) <= 1)
    => /\ host.mods = {}
       /\ simReturn = "ok" => InOrder(host)

\* The keystrokes that return press in order and leave nothing held.
C26_KeystrokeInOrder ==
  (host.op.name = "simulateKeystroke" /\ host.op.before = {} /\ simReturn = "ok")
    => host.mods = {} /\ InOrder(host)

\* The button presses of the last operation that took effect, in order.
PressedButtons(h) ==
  LET clicks_ == SelectSeq(Done(h), LAMBDA e : e.call.fn = "mouseClick")
  IN  [k \in 1..Len(clicks_) |-> clicks_[k].call.key]

\* C27: a simulateClick that returns has made exactly two left presses for
\* the click type double, whatever clickCount was passed, and exactly
\* clickCount presses of the button for the click types left and right.
C27_PressCount ==
  (host.op.name = "simulateClick" /\ simReturn = "ok")
    => LET pressed == PressedButtons(host)
       IN  IF host.op.button = "double"
           THEN pressed = << "left", "left" >>
           ELSE /\ Len(pressed) = host.op.count
                /\ \A k \in 1..Len(pressed) : pressed[k] = host.op.button

\* A double click asked with the largest clickCount has returned after two
\* presses.
C27_Witness ==
  /\ host.op.name = "simulateClick" /\ simReturn = "ok"
  /\ host.op.count = MaxClicks
  /\ host.op.button = "double"
  /\ Len(PressedButtons(host)) = 2

\* A target manager operation whose write of the store fails.
FailedWrite ==
  \/ \E p \in StorePoints, kind \in StoreKinds : CreateTarget(p, kind, FALSE)
  \/ \E id \in TargetIds, p \in StorePoints :
       (\E t \in targets : t.id = id) /\ UpdateTarget(id, p, FALSE)
  \/ \E id \in TargetIds : (\E t \in targets : t.id = id) /\ DeleteTarget(id, FALSE)
  \/ ClearAllTargets(FALSE)

\* C28: when the write of the store fails during createTarget, updateTarget,
\* deleteTarget or clearAllTargets, the operation reports a failed save
\* rather than success, and the collection in memory keeps the mutation.
C28_FailedSaveReported ==
  [][ /\ FailedWrite => tmReturn' \notin { "ok", "true" }
      /\ SaveMacro(GapMacro, FALSE) => recReturn' # "ok" ]_vars

\* The second half alone: the store keeps its old content and the collection
\* in memory has the new target, the new coordinates, or lacks the deleted ones.
C28_MutationKept ==
  [][ /\ FailedWrite => targetsFile' = targetsFile
      /\ SaveMacro(GapMacro, FALSE)
           => /\ disk' = disk
              /\ \E k \in 1..Len(macros') : macros'[k] = GapMacro
      /\ \A p \in StorePoints, kind \in StoreKinds :
           CreateTarget(p, kind, FALSE)
             => Cardinality(targets') = Cardinality(targets) + 1
      /\ \A id \in TargetIds :
           ((\E t \in targets : t.id = id) /\ DeleteTarget(id, FALSE))
             => /\ ~ \E t \in targets' : t.id = id
                /\ Cardinality(targets') = Cardinality(targets) - 1
      /\ ClearAllTargets(FALSE) => targets' = {} ]_vars

\* C29: when the read of the store fails at load, the file missing,
\* unreadable or malformed, loadTargets and loadMacros do not fail: the
\* collection becomes empty and the initialization completes.
C29_FailedReadLoadsEmpty ==
  [][ /\ \A read \in ReadOutcomes \ { "ok" } :
           /\ InitializeTargets(read) => (targets' = {} /\ tmReady' /\ tmReturn' = "ok")
           /\ LoadTargets(read) => (targets' = {} /\ tmReturn' = "ok")
      /\ Initialize(Feeds, FALSE)
           => (macros' = << >> /\ dependencies'.ready /\ recReturn' = "ok") ]_vars

\* Targets were in memory and in the store, and a load whose read failed has
\* left the collection empty; the macros were stored and their failed load
\* has left no macro.
C29_Witness ==
  /\ tmReady /\ tmReturn = "ok" /\ targets = {} /\ targetsFile # {}
  /\ dependencies.ready /\ macros = << >> /\ disk # << >>

\* The target lies on a display of the layout, which is the one it names.
WithinDisplay(t, screens) ==
  \E k \in 1..Len(screens) :
    /\ screens[k].id = t.screenId
    /\ 0 <= t.x /\ t.x < screens[k].width
    /\ 0 <= t.y /\ t.y < screens[k].height

\* The global point, in tenths of a pixel, is a whole pixel of a display.
WholePixelInside(point, screens) ==
  /\ point[1] % 10 = 0 /\ point[2] % 10 = 0
  /\ \E k \in 1..Len(screens) :
       /\ 10 * screens[k].x <= point[1]
       /\ point[1] < 10 * (screens[k].x + screens[k].width)
       /\ 10 * screens[k].y <= point[2]
       /\ point[2] < 10 * (screens[k].y + screens[k].height)

\* C30: every target stored by createTarget or updateTarget has its (x, y)
\* within [0, width) x [0, height) of a display of the layout used when it
\* was stored, and names that display, for any global input point.
C30_StoredWithinDisplay ==
  [][ \A t \in targets' \ targets : WithinDisplay(t, displays) ]_vars

\* The same for the input points that are a whole pixel of some display.
C30_StoredWithinDisplayFromInside ==
  [][ \A p \in GlobalPoints :
        WholePixelInside(p, displays)
          => /\ \A kind \in ClickKinds :
                  CreateTarget(p, kind, TRUE)
                    => \A t \in targets' \ targets : WithinDisplay(t, displays)
             /\ \A id \in TargetIds :
                  UpdateTarget(id, p, TRUE)
                    => \A t \in targets' \ targets : WithinDisplay(t, displays) ]_vars

\* Display ids coordinates may carry: the default 0 of createCoordinates, the
\* displays of the layouts, and a display no layout has.
ScreenIds == 0..3

\* C31: screenToGlobalCoordinates on coordinates whose display id is not in
\* the current layout returns them offset by the origin of the first display
\* of the list; when the id is in the layout it returns them offset by the
\* origin of the display with that id.
C31_FallbackToFirst ==
  \A id \in ScreenIds, x \in LocalXs, y \in LocalYs :
    LET c == [x |-> x, y |-> y, screenId |-> id]
        g == screenToGlobalCoordinates(c, displays)
    IN  IF \E k \in 1..Len(displays) : displays[k].id = id
        THEN \A k \in 1..Len(displays) :
               displays[k].id = id => g = [x |-> x + displays[k].x, y |-> y + displays[k].y]
        ELSE g = [x |-> x + displays[1].x, y |-> y + displays[1].y]

\* A target stored on a display that the layout no longer has was tested, and
\* the click went to its coordinates offset by the first display's origin.
C31_Witness ==
  /\ clicks # << >>
  /\ tmReturn = "true"
  /\ \E t \in targets :
       /\ \A k \in 1..Len(displays) : displays[k].id # t.screenId
       /\ clicks[1].x = t.x + displays[1].x
       /\ clicks[1].y = t.y + displays[1].y

\* C32: a playMacro call rejected because a run is active leaves the session
\* state of that run as it was: isPlaying stays true and currentMacro,
\* playbackSpeed, the stop and pause flags, the repeat settings and
\* suppressErrors keep their values.
C32_RejectedCallKeepsSession ==
  [][ \A m \in MacroIds :
        (playbackState.isPlaying /\ PlayMacroRejected(m))
          => playbackState' = playbackState ]_vars

\* C33: once stopPlayback was accepted before playMacro has returned, the
\* playMacro call never returns success = true, also when the last step of an
\* iteration or of the run was in flight at the stop.
C33_StoppedNeverSucceeds ==
  (watch.run # 0 /\ watch.stopReq /\ watch.result.kind # "none")
    => ~watch.result.success

\* C33 in full: the call returns success = false with stopped = true.
C33_StoppedReturnsStopped ==
  (watch.run # 0 /\ watch.stopReq /\ watch.result.kind # "none")
    => (~watch.result.success /\ watch.result.stopped)

\* The names of the run-ending notifications among the events, in order.
Terminal(evs) ==
  LET ends == SelectSeq(evs, LAMBDA e : e.event \in { "playbackComplete", "playbackStopped",
                                                      "playbackError" })
  IN  [k \in 1..Len(ends) |-> ends[k].event]

\* C34, in particular: a run that ends as stopped, its `stopped` notification
\* sent when the stop was accepted, does not also emit `complete`.
C34_StoppedRunNotComplete ==
  [][ (WatchedLive /\ WatchedDone' /\ watch'.result.stopped)
        => Terminal(emitted') = << >> ]_vars

\* C34 in full: the step in which a run ends emits `complete` alone when the
\* run succeeded, an error notification alone when a step failure aborted it,
\* and nothing more when it was stopped.
C34_OneTerminalNotification ==
  [][ (WatchedLive /\ WatchedDone')
        => Terminal(emitted') =
             IF watch'.result.success THEN << "playbackComplete" >>
             ELSE IF watch'.result.stopped THEN << >>
             ELSE << "playbackError" >> ]_vars

\* The part that holds: a run that ends successfully without a stop emits
\* `complete` as its only terminal notification.
C34_SuccessEmitsComplete ==
  [][ (WatchedLive /\ WatchedDone' /\ watch'.result.success /\ ~watch'.stopReq)
        => Terminal(emitted') = << "playbackComplete" >> ]_vars

\* C35: in every reachable state the playback speed lies in [0.25, 4.0],
\* whatever playMacro calls with a speed option and setPlaybackSpeed, pause,
\* resume and stop calls produced the state.
C35_SpeedInRange ==
  playbackState.playbackSpeed >= 25 /\ playbackState.playbackSpeed <= 400

\* The part that holds: after an accepted setPlaybackSpeed the speed is in
\* the range, whatever it was before.
C35_SetSpeedInRange ==
  [][ \A s \in SpeedInputs :
        (s > 0 /\ SetPlaybackSpeed(s))
          => (playbackState'.playbackSpeed >= 25 /\ playbackState'.playbackSpeed <= 400) ]_vars

\* C36: a startRecording that fails for another reason than a recording in
\* progress, a required dependency missing or a feed subscription raising,
\* leaves the recorder idle: isRecording is false and no feed is subscribed,
\* so a later startRecording is accepted.
C36_FailedStartLeavesIdle ==
  [][ ((\E o \in StartOptions : StartRecordingFailed(o))
         \/ (\E j \in 1..Len(FeedOrder) : SetupFailed(j)))
        => (~recordingState'.isRecording /\ hostHandlers' = hostHandlers) ]_vars

\* The second part alone: no feed stays subscribed after a failed start.
C36_FailedStartUnsubscribes ==
  [][ ((\E o \in StartOptions : StartRecordingFailed(o))
         \/ (\E j \in 1..Len(FeedOrder) : SetupFailed(j)))
        => hostHandlers' = hostHandlers ]_vars

\* C37: an input event or an addActionToRecording call delivered while the
\* recorder is idle, before any startRecording or after stopRecording or
\* cancelRecording, changes no macro: neither the last recorded macro nor a
\* macro of the collection gains a step.
C37_IdleRecordsNothing ==
  [][ (~recordingState.isRecording
         /\ ((\E ev \in InputEvents : Deliver(ev)) \/ AddActionToRecording))
        => /\ macros' = macros
           /\ recordingState'.currentMacro = recordingState.currentMacro
           /\ disk' = disk ]_vars

\* The recorder is idle after a recording ended, a handler is still
\* registered with a feed, and the feed has just delivered an event to it.
C37_Witness ==
  /\ dependencies.ready /\ ~recordingState.isRecording
  /\ session.id > 0 /\ ~session.live
  /\ hostHandlers # {}
  /\ recReturn = "none"

\* Whole-pixel global points: on the primary display, on a display to its
\* right, on a display to its left, and outside every display of the layouts.
GlobalPixels ==
  { << 50, 50 >>, << 1919, 1079 >>, << 1970, 50 >>, << -1900, 50 >>, << -5, -5 >>,
    << 4000, 50 >>, << 50, 2000 >> }

\* C38: in every display layout, a whole-pixel global point, inside a display
\* or outside all of them, is returned unchanged by globalToScreenCoordinates
\* followed by screenToGlobalCoordinates.
C38_ReverseRoundTrip ==
  \A p \in GlobalPixels :
    LET c == globalToScreenCoordinates(10 * p[1], 10 * p[2], displays)
        g == screenToGlobalCoordinates(c, displays)
    IN  g = [x |-> p[1], y |-> p[2]]

\* A target created at the global point (-5, -5), outside every display, has
\* been tested and the click went to (-5, -5).
C38_Witness ==
  /\ tmReturn = "true"
  /\ clicks # << >>
  /\ clicks[1].x = -5 /\ clicks[1].y = -5
  /\ \E t \in targets : t.x = -5 /\ t.y = -5 /\ t.screenId = displays[1].id

\* C39: executing one click step calls simulateClick at most once: when the
\* click at the target's resolved coordinates raises, the step fails and no
\* second click is made at the step's literal coordinates.
C39_AtMostOneClick ==
  [][ \A action \in ClickActions, methods \in PlayerTargetManagers, fails \in ClickFaults :
        ExecuteClickActionWith(action, methods, fails) =>
          /\ Len(clicks') <= 1
          /\ (1 \in fails => simReturn' = "throw") ]_vars

\* The part of C39 that holds with the TargetManager object as the player's
\* target manager: the resolution raises before any click, so the step makes
\* one click, at its literal coordinates, and fails when that click raises.
C39_OneClickWithTargetManager ==
  [][ \A action \in ClickActions, fails \in ClickFaults :
        ExecuteClickActionWith(action, TargetManagerMethods, fails) =>
          /\ clicks' = << ClickCall(action.x, action.y, "left", 1) >>
          /\ simReturn' = IF 1 \in fails THEN "throw" ELSE "ok" ]_vars

\* C40: in every reachable state the ids of the targets of the collection
\* are pairwise distinct, whatever createTarget calls (with a generated or a
\* caller-supplied id) and clearAllTargets calls were made.
C40_DistinctIds ==
  \A t, u \in targets : t.id = u.id => t = u

====
